---- MODULE Spec2Model ----
(***************************************************************************)
(* State-machine model of the Analytics tracker (src/src/Analytics.ts) and *)
(* of the DOM helpers it uses (src/unnamed/part_003).                      *)
(*                                                                         *)
(* A JavaScript string is a record [t, txt, len, cut]: txt identifies the  *)
(* text, len is its length in characters, cut tells whether it went        *)
(* through a clipping.  An object literal is a sequence of [k, v] entries  *)
(* in insertion order; keys are strings, so Len(k) is the key's length.    *)
(***************************************************************************)
EXTENDS Integers, Sequences, FiniteSets, TLC

VARIABLES
    isSetupComplete,  \* module flag `isSetupComplete`
    config,           \* module variable `config`: <<>> while undefined, else <<record>>
    cache,            \* `cache.geoData`: <<>> while absent, else <<geo record>>
    gtag,             \* window.gtag: "none" | "host" | "stub"
    dataLayer,        \* window.dataLayer: <<>> while undefined, else <<queue>>
    readyState,       \* document.readyState: "loading" | "complete"
    loadHooks,        \* number of window 'load' listeners registered by onWinLoaded
    fetches,          \* geolocation requests issued, in order: [by, st]
    gtagLog,          \* every call made to window.gtag, in order
    scripts,          \* <script> elements attached to <body>, in order
    clickListeners,   \* delegated click listeners registered on document
    cookies,          \* the utx_touch cookie: <<>> while unset, else <<object>>
    calls,            \* promises waiting on window.gtag: [kind, by, name, props, cid, sid, st, err]
    env,              \* the page: environment values, URL, do-not-track signal
    budget,           \* what the host page may still start: [calls, fetches]
    last,             \* outcome of the most recent host-page API call
    document,         \* the document the wDOM helpers act on: readiness, listeners, callbacks run
    debouncer         \* a wrapper returned by wDOM.debounce: its closure, its timers, the clock

vars == <<isSetupComplete, config, cache, gtag, dataLayer, readyState, loadHooks,
          fetches, gtagLog, scripts, clickListeners, cookies,
          calls, env, budget, last, document, debouncer>>

(***************************************************************************)
(* Bounds of the model.                                                    *)
(***************************************************************************)
MaxHostCalls == 0
MaxHostFetches == 0
MaxGeoFetches == 1
MaxPayloadCalls == 1
MaxGateCalls == 1
MaxTouchCalls == 1
MaxClickCalls == 1
MaxListeners == 2
MaxHooks == 3
MaxWrapperCalls == 3
MaxClock == 6
MaxAttrs == 2
MaxClicks == 1

(***************************************************************************)
(* JavaScript values.                                                      *)
(***************************************************************************)
SV(txt, n) == [t |-> "string", txt |-> txt, len |-> n, cut |-> FALSE]
Empty == SV("", 0)
Undefined == [t |-> "undefined", txt |-> "", len |-> 0, cut |-> FALSE]
Num(txt) == [t |-> "number", txt |-> txt, len |-> 0, cut |-> FALSE]
Bool(b) == [t |-> "boolean", txt |-> IF b THEN "true" ELSE "false", len |-> 0, cut |-> FALSE]
ArrayOf(v) == [t |-> "array", txt |-> v.txt, len |-> 1, cut |-> FALSE]
ObjectOf(k, v) == [t |-> "object", txt |-> v.txt, len |-> v.len, cut |-> v.cut]

\* JavaScript truthiness of the values the module tests.
Truthy(v) ==
    CASE v.t = "undefined" -> FALSE
      [] v.t = "string" -> v.len > 0
      [] v.t = "boolean" -> v.txt = "true"
      [] OTHER -> TRUE

\* String(value || '').
StringOrEmpty(v) ==
    IF ~Truthy(v) THEN Empty
    ELSE IF v.t = "string" THEN v
    ELSE [t |-> "string", txt |-> v.txt, len |-> Len(v.txt), cut |-> FALSE]

isString(v) == v.t = "string"
charLength(s) == s.len

\* A clip that returns the string whole.
clip_whole(s, maxChars) == s

\* $str.clip(str, {maxChars}): a string within the limit is returned as it is,
\* a longer one is cut down to exactly maxChars characters.
clip(s, maxChars) ==
    IF charLength(s) > maxChars THEN [s EXCEPT !.len = maxChars, !.cut = TRUE] ELSE s

(***************************************************************************)
(* Object literals: insertion-ordered sequences of [k, v].                 *)
(***************************************************************************)
Keys(o) == {o[i].k : i \in 1..Len(o)}
Has(o, k) == k \in Keys(o)
IndexOf(o, k) == CHOOSE i \in 1..Len(o) : o[i].k = k
Get(o, k) == o[IndexOf(o, k)].v
Put(o, k, v) ==
    IF Has(o, k) THEN [o EXCEPT ![IndexOf(o, k)].v = v]
    ELSE Append(o, [k |-> k, v |-> v])

\* A spread in which a key already present keeps its value.
RECURSIVE Spread_firstWins(_, _)
Spread_firstWins(a, b) ==
    IF b = <<>> THEN a
    ELSE Spread_firstWins(IF Has(a, Head(b).k) THEN a ELSE Put(a, Head(b).k, Head(b).v), Tail(b))

\* {...a, ...b}: the entries of b are written over a, in b's order.
RECURSIVE Spread(_, _)
Spread(a, b) ==
    IF b = <<>> THEN a ELSE Spread(Put(a, Head(b).k, Head(b).v), Tail(b))

(***************************************************************************)
(* The page the module runs in.                                            *)
(***************************************************************************)
LowerCase(tok) ==
    CASE tok = "Privacy" -> "privacy"
      [] tok = "COOKIES" -> "cookies"
      [] tok = "Policy" -> "policy"
      [] OTHER -> tok

EndOrSlash(r) == r = <<>> \/ Head(r) = "/"

\* /^\/(?:privacy|cookies?)(?:[_-]policy)?(?:$|\/)/iu.test(path), the path given
\* as its sequence of lexemes ("/", "-", "_" and the words between them).
IsPolicyPath(p) ==
    /\ Len(p) >= 2
    /\ p[1] = "/"
    /\ LowerCase(p[2]) \in {"privacy", "cookie", "cookies"}
    /\ LET r == SubSeq(p, 3, Len(p)) IN
           \/ EndOrSlash(r)
           \/ /\ Len(r) >= 2
              /\ r[1] \in {"_", "-"}
              /\ LowerCase(r[2]) = "policy"
              /\ EndOrSlash(SubSeq(r, 3, Len(r)))

\* $url.getQueryVar(name): the value of the query variable, else undefined.
getQueryVar(e, name) == IF Has(e.query, name) THEN Get(e.query, name) ELSE Undefined

\* $url.getQueryVars(names): the query variables having one of the names.
getQueryVars(e, names) == SelectSeq(e.query, LAMBDA q : q.k \in names)

\* The world the handlers act on, as one record, so that a handler and the
\* handlers it calls compose as functions from world to world.  `out` is the
\* outcome the outermost call hands to its caller.
World ==
    [isSetupComplete |-> isSetupComplete, config |-> config, cache |-> cache,
     gtag |-> gtag, dataLayer |-> dataLayer, readyState |-> readyState,
     loadHooks |-> loadHooks, fetches |-> fetches,
     gtagLog |-> gtagLog, scripts |-> scripts, clickListeners |-> clickListeners,
     cookies |-> cookies, calls |-> calls, env |-> env,
     out |-> [kind |-> "none", err |-> ""]]

Becomes(w) ==
    /\ isSetupComplete' = w.isSetupComplete
    /\ config' = w.config
    /\ cache' = w.cache
    /\ gtag' = w.gtag
    /\ dataLayer' = w.dataLayer
    /\ readyState' = w.readyState
    /\ loadHooks' = w.loadHooks
    /\ fetches' = w.fetches
    /\ gtagLog' = w.gtagLog
    /\ scripts' = w.scripts
    /\ clickListeners' = w.clickListeners
    /\ cookies' = w.cookies
    /\ calls' = w.calls
    /\ env' = w.env

Returned(w) == [w EXCEPT !.out = [kind |-> "returned", err |-> ""]]
Thrown(w, e) == [w EXCEPT !.out = [kind |-> "thrown", err |-> e]]
Resolved(w) == [w EXCEPT !.out = [kind |-> "resolved", err |-> ""]]
Rejected(w, e) == [w EXCEPT !.out = [kind |-> "rejected", err |-> e]]
Pending(w) == [w EXCEPT !.out = [kind |-> "pending", err |-> ""]]

notSetUpErrorMsg == "Analytics not set up yet."

NotSetUp_never(w) == FALSE

\* if (!isSetupComplete), the guard at the head of every method.
NotSetUp(w) == ~w.isSetupComplete

(***************************************************************************)
(* window.gtag(...args).  The stub installed by setup pushes the arguments *)
(* onto window.dataLayer; a function of the host page is only observed.    *)
(***************************************************************************)
gtagStub(w, args) == [w EXCEPT !.dataLayer = <<Append(w.dataLayer[1], args)>>]

callGtag(w, args) ==
    LET logged == [w EXCEPT !.gtagLog = Append(w.gtagLog, args)] IN
    IF w.gtag = "stub" THEN gtagStub(logged, args) ELSE logged

(***************************************************************************)
(* Limits of the tracker.                                                  *)
(***************************************************************************)
MaxNameChars == 40
MaxParams == 25
MaxKeyChars == 40
MaxValueChars == 100
MaxUserIdChars == 36
MaxUserIdFieldChars == 256

PendingValue == [t |-> "pending", txt |-> "", len |-> 0, cut |-> FALSE]

GtagArgs(cmd, name, data, by, call) ==
    [cmd |-> cmd, name |-> name, data |-> data, by |-> by, call |-> call]

\* The tracked ut[mx]_* query variables.
utmXNames == {"utm_source", "utm_medium", "utm_campaign", "utm_content", "utm_term", "utx_ref"}

utmXQueryVars(w) == getQueryVars(w.env, utmXNames)

XName(name) ==
    CASE name = "utm_source" -> "x_utm_source"
      [] name = "utm_medium" -> "x_utm_medium"
      [] name = "utm_campaign" -> "x_utm_campaign"
      [] name = "utm_content" -> "x_utm_content"
      [] name = "utm_term" -> "x_utm_term"
      [] name = "utx_ref" -> "x_utx_ref"

\* Dimensions cut down to the length of a key.
utmXQueryVarDimensions_clip40(w) ==
    LET queryVars == utmXQueryVars(w) IN
    [i \in 1..Len(queryVars) |->
        [k |-> XName(queryVars[i].k), v |-> clip(queryVars[i].v, MaxKeyChars)]]

utmXQueryVarDimensions(w) ==
    LET queryVars == utmXQueryVars(w) IN
    [i \in 1..Len(queryVars) |->
        [k |-> XName(queryVars[i].k), v |-> clip(queryVars[i].v, MaxValueChars)]]

\* '1' === window.doNotTrack || (window.navigator && '1' === navigator.doNotTrack)
userHasDoNotTrackHeader(w) ==
    \/ w.env.winDNT = SV("1", 1)
    \/ w.env.hasNavigator /\ w.env.navDNT = SV("1", 1)

(***************************************************************************)
(* trackEvent: the part that runs inside the call, and the continuation    *)
(* that runs once the client_id and session_id queries are answered.       *)
(***************************************************************************)
NameTooLong(name) == charLength(name) > MaxNameChars

clientId(w, c, by) == callGtag(w, GtagArgs("get", SV("client_id", 9), <<>>, by, c))
sessionId(w, c, by) == callGtag(w, GtagArgs("get", SV("session_id", 10), <<>>, by, c))

NewCall(kind, by, name, props) ==
    [kind |-> kind, by |-> by, name |-> name, props |-> props,
     cid |-> IF kind = "sessionId" THEN Undefined ELSE PendingValue,
     sid |-> IF kind = "clientId" THEN Undefined ELSE PendingValue,
     st |-> "waiting", err |-> ""]

trackEvent(w, name, props, by) ==
    IF NotSetUp(w) THEN Rejected(w, notSetUpErrorMsg)
    ELSE IF NameTooLong(name) THEN Rejected(w, "Event name exceeds 40 chars.")
    ELSE IF w.gtag = "none" THEN Rejected(w, "TypeError: window.gtag is not a function")
    ELSE LET c == Len(w.calls) + 1
             w1 == [w EXCEPT !.calls = Append(w.calls, NewCall("event", by, name, props))]
         IN Pending(sessionId(clientId(w1, c, by), c, by))

BuiltIns(w, userId, cid, sid) ==
    <<[k |-> "send_to", v |-> ArrayOf(w.config[1].ga4GtagId)],
      [k |-> "x_client_id", v |-> clip(cid, MaxValueChars)],
      [k |-> "x_session_id", v |-> clip(sid, MaxValueChars)]>>
    \o (IF Truthy(userId)
        THEN <<[k |-> "user_id", v |-> clip(userId, MaxUserIdFieldChars)],
               [k |-> "user_properties", v |-> ObjectOf("x_user_id", clip(userId, MaxUserIdChars))]>>
        ELSE <<>>)
    \o <<[k |-> "x_context", v |-> clip(w.config[1].context, MaxValueChars)],
         [k |-> "x_sub_context", v |-> clip(w.config[1].subContext, MaxValueChars)],
         [k |-> "x_hostname", v |-> clip(w.env.host, MaxValueChars)]>>

EventData(w, userId, cid, sid, props) ==
    Spread(Spread(BuiltIns(w, userId, cid, sid), utmXQueryVarDimensions(w)), props)

KeyTooLong(e) == Len(e.k) > MaxKeyChars

ValueTooLong_never(e) == FALSE

ValueTooLong(e) == isString(e.v) /\ charLength(e.v) > MaxValueChars
TooManyParams(eventData) == Len(eventData) > MaxParams

\* The validation of lines 234-240: "" when the payload passes.
ValidationError(eventData) ==
    IF TooManyParams(eventData) THEN "Event data exceeds total limit of 25 parameters."
    ELSE LET bad == {i \in 1..Len(eventData) : KeyTooLong(eventData[i]) \/ ValueTooLong(eventData[i])} IN
         IF bad = {} THEN ""
         ELSE LET i == CHOOSE j \in bad : \A m \in bad : j <= m IN
              IF KeyTooLong(eventData[i]) THEN "Event parameter exceeds name limit of 40 chars."
              ELSE "Event parameter exceeds value limit of 100 chars."

\* A user id of any length passes.
UserIdTooLong_never(userId) == FALSE

UserIdTooLong(userId) == charLength(userId) > MaxUserIdChars

Settle(w, c, st, err) == [w EXCEPT !.calls[c].st = st, !.calls[c].err = err]

\* A continuation that submits an empty event for a payload the validation refused.
trackEventThen_resubmit(w, c) ==
    LET call == w.calls[c]
        userId == w.config[1].userId
        eventData == EventData(w, userId, StringOrEmpty(call.cid), StringOrEmpty(call.sid), call.props)
        w1 == callGtag(w, GtagArgs("event", call.name, eventData, call.by, c))
    IN IF UserIdTooLong(userId) THEN Settle(w, c, "rejected", "userId exceeds limit of 36 chars.")
       ELSE IF ValidationError(eventData) # ""
       THEN Settle(callGtag(w, GtagArgs("event", call.name, <<>>, call.by, c)), c, "rejected",
                   ValidationError(eventData))
       ELSE Settle(w1, c, "resolved", "")

trackEventThen(w, c) ==
    LET call == w.calls[c]
        userId == w.config[1].userId
        eventData == EventData(w, userId, StringOrEmpty(call.cid), StringOrEmpty(call.sid), call.props)
    IN IF UserIdTooLong(userId) THEN Settle(w, c, "rejected", "userId exceeds limit of 36 chars.")
       ELSE IF ValidationError(eventData) # "" THEN Settle(w, c, "rejected", ValidationError(eventData))
       ELSE Settle(callGtag(w, GtagArgs("event", call.name, eventData, call.by, c)), c, "resolved", "")

(***************************************************************************)
(* trackPageView and trackClick.                                           *)
(***************************************************************************)
\* JSON.stringify(object, null, 2): the cookie holds the text of the object.
JSONStringify(o) == [json |-> o]

\* A page view that writes the cookie whatever the query holds.
trackPageView_always(w, props, by) ==
    IF NotSetUp(w) THEN Rejected(w, notSetUpErrorMsg)
    ELSE trackEvent([w EXCEPT !.cookies = <<JSONStringify(utmXQueryVars(w))>>], SV("page_view", 9), props, by)

trackPageView(w, props, by) ==
    IF NotSetUp(w) THEN Rejected(w, notSetUpErrorMsg)
    ELSE LET w1 == IF Truthy(getQueryVar(w.env, "utm_source"))
                   THEN [w EXCEPT !.cookies = <<JSONStringify(utmXQueryVars(w))>>]
                   ELSE w
         IN trackEvent(w1, SV("page_view", 9), props, by)

\* (/(?:^|\s)click-id=([a-z0-9_-]+)(?:$|\s)/iu.exec(classAttr) || [])[1]: the class
\* attribute is its sequence of whitespace-separated tokens, each token knowing
\* the identifier it carries when it has the form click-id=<identifier>.
ClassClickId(classAttr) ==
    LET hits == {i \in 1..Len(classAttr) : classAttr[i].id.t = "string"} IN
    IF hits = {} THEN Undefined
    ELSE classAttr[CHOOSE i \in hits : \A j \in hits : i <= j].id

\* text.replace(/\s+/gu, ' ').trim(), the text given as its runs of characters
\* [ws, n]: n whitespace characters or n other characters.
RECURSIVE RunsLen(_)
RunsLen(runs) == IF runs = <<>> THEN 0 ELSE Head(runs).n + RunsLen(Tail(runs))

NormalizedText(txt, runs) ==
    LET one == [i \in 1..Len(runs) |-> IF runs[i].ws THEN [ws |-> TRUE, n |-> 1] ELSE runs[i]]
        a == IF one # <<>> /\ Head(one).ws THEN Tail(one) ELSE one
        b == IF a # <<>> /\ a[Len(a)].ws THEN SubSeq(a, 1, Len(a) - 1) ELSE a
    IN SV(txt, RunsLen(b))

ToLowerCase(s) ==
    [s EXCEPT !.txt = CASE s.txt = "A" -> "a"
                        [] s.txt = "BUTTON" -> "button"
                        [] s.txt = "INPUT" -> "input"
                        [] s.txt = "SPAN" -> "span"
                        [] OTHER -> s.txt]

Or(a, b) == IF Truthy(a) THEN a ELSE b

\* Click attributes that take the value attribute before the inner text.
ClickProps_valueFirst(element) ==
    <<[k |-> "x_flex_id",
       v |-> clip(Or(Or(element.id, ClassClickId(element.class)), Empty), MaxValueChars)],
      [k |-> "x_flex_sub_id", v |-> clip(Or(element.href, Empty), MaxValueChars)],
      [k |-> "x_flex_value",
       v |-> clip(Or(Or(Or(element.title, element.value),
                        NormalizedText(element.text, element.innerText)), Empty), MaxValueChars)],
      [k |-> "x_flex_sub_value", v |-> clip(Or(ToLowerCase(element.tagName), Empty), MaxValueChars)]>>

ClickProps(element) ==
    <<[k |-> "x_flex_id",
       v |-> clip(Or(Or(element.id, ClassClickId(element.class)), Empty), MaxValueChars)],
      [k |-> "x_flex_sub_id", v |-> clip(Or(element.href, Empty), MaxValueChars)],
      [k |-> "x_flex_value",
       v |-> clip(Or(Or(Or(element.title, NormalizedText(element.text, element.innerText)),
                        element.value), Empty), MaxValueChars)],
      [k |-> "x_flex_sub_value", v |-> clip(Or(ToLowerCase(element.tagName), Empty), MaxValueChars)]>>

trackClick(w, element, props, by) ==
    IF NotSetUp(w) THEN Rejected(w, notSetUpErrorMsg)
    ELSE trackEvent(w, SV("x_click", 7), Spread(ClickProps(element), props), by)

(***************************************************************************)
(* DOM helpers used by the tracker.                                        *)
(***************************************************************************)
\* An onWinLoaded that calls back at once, whatever the state of the document.
onWinLoaded_now(w, called) == called

\* onWinLoaded(callback): now when the document is complete, else on 'load';
\* called is the world once the callback has run in w.
onWinLoaded(w, called) ==
    IF w.readyState = "complete" THEN called
    ELSE [w EXCEPT !.loadHooks = @ + 1]

\* attachScript(src, attrs): a <script async> element appended to <body>; a
\* function given as attrs.onload becomes the element's onload handler.
attachScript(w, src, onload) ==
    [w EXCEPT !.scripts = Append(w.scripts, [src |-> src, onload |-> onload, st |-> "loading"])]

\* on('click', selector, callback): one more listener on document.
on(w) == [w EXCEPT !.clickListeners = @ + 1]

(***************************************************************************)
(* initialize, geoData, loadThenInitialize, setup.                         *)
(***************************************************************************)
ConfigData(w) ==
    <<[k |-> "groups", v |-> ArrayOf(SV("default", 7))],
      [k |-> "ads_data_redaction", v |-> Bool(TRUE)],
      [k |-> "send_page_view", v |-> Bool(FALSE)],
      [k |-> "url_passthrough", v |-> Bool(FALSE)],
      [k |-> "allow_google_signals", v |-> Bool(FALSE)],
      [k |-> "allow_ad_personalization_signals", v |-> Bool(FALSE)],
      [k |-> "debug_mode", v |-> w.config[1].debug]>>

\* An initialize that configures before the bootstrap call.
initialize_configFirst(w) ==
    LET w1 == callGtag(w, GtagArgs("config", w.config[1].ga4GtagId, ConfigData(w), "auto", 0))
        w2 == callGtag(w1, GtagArgs("js", Empty, <<>>, "auto", 0))
        w3 == attachScript(w2, "ga4", FALSE)
        w4 == trackPageView(w3, <<>>, "auto")
    IN on(w4)

initialize(w) ==
    LET w1 == callGtag(w, GtagArgs("js", Empty, <<>>, "auto", 0))
        w2 == callGtag(w1, GtagArgs("config", w.config[1].ga4GtagId, ConfigData(w), "auto", 0))
        w3 == attachScript(w2, "ga4", FALSE)
        w4 == trackPageView(w3, <<>>, "auto")
    IN on(w4)

ConsentDefaults ==
    <<[k |-> "wait_for_update", v |-> Num("500")],
      [k |-> "ad_storage", v |-> SV("denied", 6)],
      [k |-> "analytics_storage", v |-> SV("denied", 6)],
      [k |-> "functionality_storage", v |-> SV("denied", 6)],
      [k |-> "personalization_storage", v |-> SV("denied", 6)],
      [k |-> "security_storage", v |-> SV("denied", 6)]>>

ConsentRequired_noDNT(w, geo) ==
    \/ geo.country # SV("US", 2)
    \/ IsPolicyPath(w.env.path)

ConsentRequired(w, geo) ==
    \/ geo.country # SV("US", 2)
    \/ userHasDoNotTrackHeader(w)
    \/ IsPolicyPath(w.env.path)

HasConsentScript(w) == Truthy(w.config[1].csGDPRScriptId)

\* A continuation that does not wait for the consent script.
loadThenInitializeThen_eager(w, geo) ==
    IF ConsentRequired(w, geo)
    THEN LET w1 == callGtag(w, GtagArgs("consent", SV("default", 7), ConsentDefaults, "auto", 0)) IN
         IF HasConsentScript(w) THEN initialize(attachScript(w1, "cs", TRUE)) ELSE w1
    ELSE initialize(w)

\* The continuation of loadThenInitialize, run with the geo data.
loadThenInitializeThen(w, geo) ==
    IF ConsentRequired(w, geo)
    THEN LET w1 == callGtag(w, GtagArgs("consent", SV("default", 7), ConsentDefaults, "auto", 0)) IN
         IF HasConsentScript(w) THEN attachScript(w1, "cs", TRUE) ELSE w1
    ELSE initialize(w)

\* A cache that is never found filled.
GeoCached_never(w) == FALSE

\* if (cache.geoData)
GeoCached(w) == w.cache # <<>>

geoData(w, by) ==
    IF NotSetUp(w) THEN Rejected(w, notSetUpErrorMsg)
    ELSE IF GeoCached(w) THEN Resolved(w)
    ELSE Pending([w EXCEPT !.fetches = Append(w.fetches, [by |-> by, st |-> "inflight"])])

loadThenInitialize(w) ==
    LET w1 == geoData(w, "auto") IN
    IF w1.out.kind = "resolved" THEN loadThenInitializeThen(w1, w1.cache[1]) ELSE w1

\* $obj.defaults({}, configOpts || {}, {...}): an option left undefined takes
\* the default, which comes from the environment or the utx_user_id cookie.
Default(opt, def) == IF opt.t = "undefined" THEN def ELSE opt

ConfigOf(opts, e) ==
    [debug |-> Default(opts.debug, Bool(Truthy(e.envDebug))),
     ga4GtagId |-> Default(opts.ga4GtagId, StringOrEmpty(e.envGa4)),
     csGDPRScriptId |-> Default(opts.csGDPRScriptId, StringOrEmpty(e.envCs)),
     context |-> Default(opts.context, StringOrEmpty(Or(e.envContext, SV("web", 3)))),
     subContext |-> Default(opts.subContext, StringOrEmpty(Or(e.envSubContext, SV("site", 4)))),
     userId |-> Default(opts.userId, StringOrEmpty(e.cookieUserId))]

AlreadySetUp_never(w) == FALSE

AlreadySetUp(w) == w.isSetupComplete

MissingGa4GtagId_never(cfg) == FALSE

MissingGa4GtagId(cfg) == ~Truthy(cfg.ga4GtagId)

\* A setup that installs its own queue and stub over those of the page.
setup_overwrite(w, configOpts) ==
    IF AlreadySetUp(w) THEN Thrown(w, "Already set up.")
    ELSE LET w1 == [w EXCEPT !.isSetupComplete = TRUE, !.config = <<ConfigOf(configOpts, w.env)>>] IN
         IF MissingGa4GtagId(w1.config[1]) THEN Thrown(w1, "Missing ga4GtagId.")
         ELSE LET w2 == [w1 EXCEPT !.dataLayer = << <<>> >>, !.gtag = "stub"]
              IN Returned(onWinLoaded(w2, loadThenInitialize(w2)))

setup(w, configOpts) ==
    IF AlreadySetUp(w) THEN Thrown(w, "Already set up.")
    ELSE LET w1 == [w EXCEPT !.isSetupComplete = TRUE, !.config = <<ConfigOf(configOpts, w.env)>>] IN
         IF MissingGa4GtagId(w1.config[1]) THEN Thrown(w1, "Missing ga4GtagId.")
         ELSE LET w2 == [w1 EXCEPT !.dataLayer = IF w1.dataLayer = <<>> THEN << <<>> >> ELSE @,
                                   !.gtag = IF w1.gtag = "none" THEN "stub" ELSE @]
              IN Returned(onWinLoaded(w2, loadThenInitialize(w2)))

(***************************************************************************)
(* Inputs.                                                                 *)
(***************************************************************************)
Ga4Id == SV("G-TEST", 6)
UserId36 == SV("u36", 36)
UserId37 == SV("u37", 37)

NoOpts ==
    [debug |-> Undefined, ga4GtagId |-> Undefined, csGDPRScriptId |-> Undefined,
     context |-> Undefined, subContext |-> Undefined, userId |-> Undefined]

SetupOpts ==
    {[NoOpts EXCEPT !.ga4GtagId = g, !.csGDPRScriptId = c] :
        g \in {Undefined, Empty, Ga4Id}, c \in {Undefined, SV("cs-1", 4)}}

FewSetupOpts ==
    {NoOpts, [NoOpts EXCEPT !.ga4GtagId = Empty], [NoOpts EXCEPT !.ga4GtagId = Ga4Id],
     [NoOpts EXCEPT !.ga4GtagId = Ga4Id, !.csGDPRScriptId = SV("cs-1", 4)]}

PlainEnv ==
    [envDebug |-> Undefined, envGa4 |-> Undefined, envCs |-> Undefined,
     envContext |-> Undefined, envSubContext |-> Undefined, cookieUserId |-> Undefined,
     winDNT |-> Undefined, hasNavigator |-> TRUE, navDNT |-> Undefined,
     path |-> <<"/">>, host |-> SV("example.com", 11), query |-> <<>>]

UtmQuery == <<[k |-> "utm_source", v |-> SV("test", 4)], [k |-> "page", v |-> SV("2", 1)]>>

Envs ==
    {PlainEnv,
     [PlainEnv EXCEPT !.winDNT = SV("1", 1), !.envGa4 = SV("G-ENV", 5)],
     [PlainEnv EXCEPT !.navDNT = SV("1", 1), !.query = UtmQuery],
     [PlainEnv EXCEPT !.path = <<"/", "privacy">>],
     [PlainEnv EXCEPT !.path = <<"/", "COOKIES", "_", "Policy", "/", "eu">>, !.query = UtmQuery],
     [PlainEnv EXCEPT !.path = <<"/", "privacy", "-", "policies">>],
     [PlainEnv EXCEPT !.path = <<"/", "about", "/", "privacy">>, !.cookieUserId = UserId36]}

TwoEnvs ==
    {PlainEnv,
     [PlainEnv EXCEPT !.envGa4 = SV("G-ENV", 5), !.cookieUserId = UserId36, !.query = UtmQuery]}

GeoValues == {[country |-> SV("US", 2)], [country |-> SV("CA", 2)], [country |-> Undefined]}

AnswerValues == {SV("826737564.1651025377", 20)}

XOk == SV("x_ok", 4)
Name40 == SV("x_name_of_40_chars", 40)
Name41 == SV("x_name_of_41_chars", 41)

Key40 == "x_key_of_exactly_forty_characters_length"
Key41 == "x_key_of_exactly_forty_one_characters_len"

ManyKeys == <<"p01", "p02", "p03", "p04", "p05", "p06", "p07", "p08", "p09", "p10", "p11", "p12">>
Many(n) == [i \in 1..n |-> [k |-> ManyKeys[i], v |-> Num("1")]]

OverridingProps ==
    <<[k |-> "x_utm_source", v |-> SV("mine", 4)],
      [k |-> "send_to", v |-> SV("G-OTHER", 7)],
      [k |-> "x_client_id", v |-> Num("7")],
      [k |-> "x_flex_id", v |-> SV("hero", 4)]>>

RichProps ==
    {<<>>,
     OverridingProps,
     <<[k |-> "a", v |-> SV("y", 100)]>>,
     <<[k |-> "a", v |-> SV("y", 101)]>>,
     <<[k |-> Key40, v |-> SV("v", 1)]>>,
     <<[k |-> Key41, v |-> SV("v", 1)]>>,
     <<[k |-> "a", v |-> SV("y", 101)], [k |-> Key41, v |-> SV("v", 1)]>>,
     <<[k |-> "big", v |-> [t |-> "object", txt |-> "blob", len |-> 500, cut |-> FALSE]]>>,
     Many(11),
     Many(12)}

EventInputs == {[name |-> XOk, props |-> <<>>], [name |-> Name41, props |-> <<>>]}

RichEventInputs ==
    {[name |-> XOk, props |-> p] : p \in RichProps}
    \cup {[name |-> Name40, props |-> <<>>], [name |-> Name41, props |-> OverridingProps]}

Button ==
    [id |-> SV("buy", 3), class |-> <<>>, href |-> Undefined, title |-> Undefined,
     text |-> "Buy now",
     innerText |-> <<[ws |-> FALSE, n |-> 3], [ws |-> TRUE, n |-> 2], [ws |-> FALSE, n |-> 3]>>,
     value |-> Undefined, tagName |-> SV("BUTTON", 6)]

Link ==
    [id |-> Undefined,
     class |-> <<[txt |-> "btn", id |-> Undefined], [txt |-> "click-id=cta", id |-> SV("cta", 3)]>>,
     href |-> SV("/pricing?plan=...", 150), title |-> Undefined,
     text |-> "long text",
     innerText |-> <<[ws |-> TRUE, n |-> 4], [ws |-> FALSE, n |-> 130], [ws |-> TRUE, n |-> 1]>>,
     value |-> Undefined, tagName |-> SV("A", 1)]

Submit ==
    [id |-> Undefined, class |-> <<[txt |-> "btn", id |-> Undefined]>>, href |-> Undefined,
     title |-> Undefined, text |-> "", innerText |-> <<>>,
     value |-> SV("Send", 4), tagName |-> SV("INPUT", 5)]

ClickInputs == {[element |-> Button, props |-> <<>>]}

RichClickInputs ==
    {[element |-> e, props |-> <<>>] : e \in {Button, Link, Submit}}
    \cup {[element |-> Button, props |-> OverridingProps]}

AllUtmQuery ==
    <<[k |-> "utm_source", v |-> SV("news", 4)], [k |-> "utm_medium", v |-> SV("email", 5)],
      [k |-> "utm_campaign", v |-> SV("spring", 120)], [k |-> "utm_content", v |-> SV("a", 1)],
      [k |-> "utm_term", v |-> SV("t", 1)], [k |-> "utx_ref", v |-> SV("r", 1)],
      [k |-> "utm_id", v |-> SV("9", 1)]>>

PayloadEnvs ==
    {PlainEnv,
     [PlainEnv EXCEPT !.query = AllUtmQuery, !.host = SV("very.long.example.com", 120)]}

PayloadOpts ==
    {[NoOpts EXCEPT !.ga4GtagId = Ga4Id],
     [NoOpts EXCEPT !.ga4GtagId = Ga4Id, !.userId = UserId37],
     [NoOpts EXCEPT !.ga4GtagId = Ga4Id, !.userId = UserId36, !.context = SV("campaign site", 120)]}

RichAnswerValues == {Undefined, SV("1651031160...", 120)}

LongAnswerValues == {SV("1651031160...", 120)}

\* An element with every attribute the click attributes are taken from.
Card ==
    [id |-> SV("card", 4),
     class |-> <<[txt |-> "click-id=one", id |-> SV("one", 3)], [txt |-> "click-id=two", id |-> SV("two", 3)]>>,
     href |-> SV("/card", 5), title |-> SV("Open card", 9),
     text |-> "Card body",
     innerText |-> <<[ws |-> FALSE, n |-> 4], [ws |-> TRUE, n |-> 1], [ws |-> FALSE, n |-> 4]>>,
     value |-> SV("v", 1), tagName |-> SV("SPAN", 4)]

\* An element whose inner text is white space only.
Blank ==
    [id |-> Empty,
     class |-> <<[txt |-> "click-id=", id |-> Undefined], [txt |-> "click-id=two", id |-> SV("two", 3)]>>,
     href |-> Empty, title |-> Empty,
     text |-> "",
     innerText |-> <<[ws |-> TRUE, n |-> 3]>>,
     value |-> SV("Send", 120), tagName |-> SV("INPUT", 5)]

\* An element with an inner text and a value attribute, and no title.
Field ==
    [id |-> Undefined, class |-> <<>>, href |-> Undefined, title |-> Undefined,
     text |-> "Go",
     innerText |-> <<[ws |-> TRUE, n |-> 1], [ws |-> FALSE, n |-> 2]>>,
     value |-> SV("go-value", 8), tagName |-> SV("BUTTON", 6)]

ClickCases ==
    {[element |-> e, props |-> <<>>] : e \in {Button, Link, Submit, Card, Blank, Field}}
    \cup {[element |-> Card, props |-> <<[k |-> "x_flex_value", v |-> SV("mine", 4)],
                                          [k |-> "x_flex_sub_value", v |-> Num("7")]>>]}

\* The utx_touch cookie an earlier page view of the session left.
OldTouch == JSONStringify(<<[k |-> "utm_source", v |-> SV("earlier", 7)]>>)

NoSourceQuery ==
    <<[k |-> "utm_medium", v |-> SV("email", 5)], [k |-> "page", v |-> SV("2", 1)],
      [k |-> "utx_ref", v |-> SV("r", 1)]>>

TouchEnvs ==
    {[PlainEnv EXCEPT !.query = UtmQuery],
     [PlainEnv EXCEPT !.query = NoSourceQuery],
     [PlainEnv EXCEPT !.query = AllUtmQuery]}

TouchProps == {<<>>, <<[k |-> "x_utm_medium", v |-> SV("mine", 4)]>>}

(***************************************************************************)
(* Calls made by the host page.                                            *)
(***************************************************************************)
Outcome(op, w) == [op |-> op, kind |-> w.out.kind, err |-> w.out.err]

\* A call of the host page is taken while it keeps within the bounds the
\* number of promises the host page has waiting on window.gtag and the number
\* of geolocation requests its calls have issued.
ByHost(seq) == Cardinality({i \in 1..Len(seq) : seq[i].by = "host"})

Host(op, w) ==
    /\ ByHost(w.calls) <= budget.calls
    /\ ByHost(w.fetches) <= budget.fetches
    /\ Becomes(w)
    /\ last' = Outcome(op, w)
    /\ UNCHANGED <<budget, document, debouncer>>

HostSetup(Opts) == \E configOpts \in Opts : Host("setup", setup(World, configOpts))

\* userId(): the configured user id, through a promise.
userId(w) == IF NotSetUp(w) THEN Rejected(w, notSetUpErrorMsg) ELSE Resolved(w)

\* clientId() and sessionId() called on their own.
idQuery(w, kind) ==
    IF NotSetUp(w) THEN Rejected(w, notSetUpErrorMsg)
    ELSE IF w.gtag = "none" THEN Rejected(w, "TypeError: window.gtag is not a function")
    ELSE LET c == Len(w.calls) + 1
             w1 == [w EXCEPT !.calls = Append(w.calls, NewCall(kind, "host", Empty, <<>>))]
         IN Pending(IF kind = "clientId" THEN clientId(w1, c, "host") ELSE sessionId(w1, c, "host"))

HostUserId == Host("userId", userId(World))
HostClientId == Host("clientId", idQuery(World, "clientId"))
HostSessionId == Host("sessionId", idQuery(World, "sessionId"))
HostGeoData == Host("geoData", geoData(World, "host"))
HostTrackPageView(Props) == \E props \in Props : Host("trackPageView", trackPageView(World, props, "host"))
HostTrackClick(Inputs) ==
    \E in \in Inputs : Host("trackClick", trackClick(World, in.element, in.props, "host"))
HostTrackEvent(Inputs) ==
    \E in \in Inputs : Host("trackEvent", trackEvent(World, in.name, in.props, "host"))

(***************************************************************************)
(* Events of the browser, the network and the tag library.                 *)
(***************************************************************************)
Env(w) == Becomes(w) /\ UNCHANGED <<budget, last, document, debouncer>>

RECURSIVE FireLoad(_, _)
FireLoad(w, n) == IF n = 0 THEN w ELSE FireLoad(loadThenInitialize(w), n - 1)

WindowLoad ==
    /\ readyState = "loading"
    /\ Env(FireLoad([World EXCEPT !.readyState = "complete"], loadHooks))

\* .then((json) => (cache.geoData = json)), then the continuation of the caller.
geoResolved(w, i, json) ==
    LET w1 == [w EXCEPT !.cache = <<json>>, !.fetches[i].st = "resolved"] IN
    IF w.fetches[i].by = "auto" THEN loadThenInitializeThen(w1, json) ELSE w1

\* A failure answered by a new request.
geoRejected_retry(w, i) ==
    [w EXCEPT !.fetches = Append([@ EXCEPT ![i].st = "rejected"], [by |-> w.fetches[i].by, st |-> "inflight"])]

geoRejected(w, i) == [w EXCEPT !.fetches[i].st = "rejected"]

GeoResponse ==
    \E i \in 1..Len(fetches), json \in GeoValues :
        /\ fetches[i].st = "inflight"
        /\ Env(geoResolved(World, i, json))

GeoFailure ==
    \E i \in 1..Len(fetches) :
        /\ fetches[i].st = "inflight"
        /\ Env(geoRejected(World, i))

\* A load event that leaves the script waiting to load.
scriptLoaded_again(w, i) == IF w.scripts[i].onload THEN initialize(w) ELSE w

scriptLoaded(w, i) ==
    LET w1 == [w EXCEPT !.scripts[i].st = "loaded"] IN
    IF w.scripts[i].onload THEN initialize(w1) ELSE w1

ScriptLoad ==
    \E i \in 1..Len(scripts) :
        /\ scripts[i].st = "loading"
        /\ Env(scriptLoaded(World, i))

ScriptError ==
    \E i \in 1..Len(scripts) :
        /\ scripts[i].st = "loading"
        /\ Env([World EXCEPT !.scripts[i].st = "error"])

\* The tag library answers 'get' queries once it runs: the host page brought
\* it, or the script attached by initialize has loaded.
LibraryRuns(w) ==
    \/ w.gtag = "host"
    \/ \E i \in 1..Len(w.scripts) : w.scripts[i].src = "ga4" /\ w.scripts[i].st = "loaded"

\* A chain that runs on with the first of the two answers.
answered_either(w, c, field, value) ==
    LET w1 == IF field = "cid" THEN [w EXCEPT !.calls[c].cid = value]
              ELSE [w EXCEPT !.calls[c].sid = value]
    IN IF w1.calls[c].kind = "event" THEN trackEventThen(w1, c)
       ELSE Settle(w1, c, "resolved", "")

\* The library calls the callback of a 'get' query; the promise chain that
\* waited for it runs on.
answered(w, c, field, value) ==
    LET w1 == IF field = "cid" THEN [w EXCEPT !.calls[c].cid = value]
              ELSE [w EXCEPT !.calls[c].sid = value]
        call == w1.calls[c]
    IN IF call.cid.t = "pending" \/ call.sid.t = "pending" THEN w1
       ELSE IF call.kind = "event" THEN trackEventThen(w1, c)
       ELSE Settle(w1, c, "resolved", "")

GtagAnswer(Values) ==
    \E c \in 1..Len(calls), field \in {"cid", "sid"}, value \in Values :
        /\ LibraryRuns(World)
        /\ calls[c].st = "waiting"
        /\ (IF field = "cid" THEN calls[c].cid ELSE calls[c].sid).t = "pending"
        /\ Env(answered(World, c, field, value))

(***************************************************************************)
(* wDOM: the nodes of a page.  Node 0 is the document; -1 stands for null. *)
(*   document > html > body > div > a > span > #text                       *)
(*                                  a > svg > foreignObject > button       *)
(*                                  a > button                             *)
(***************************************************************************)
DocumentNode == 0
Nodes == 0..10

parentNode(n) ==
    CASE n = 1 -> 0 [] n = 2 -> 1 [] n = 3 -> 2 [] n = 4 -> 3 [] n = 5 -> 4
      [] n = 6 -> 5 [] n = 7 -> 4 [] n = 8 -> 7 [] n = 9 -> 8 [] n = 10 -> 4
      [] OTHER -> -1

Interface(n) ==
    CASE n = 0 -> "Document"
      [] n \in {1, 2, 3, 4, 5, 9, 10} -> "HTMLElement"
      [] n \in {7, 8} -> "SVGElement"
      [] n = 6 -> "Text"
      [] OTHER -> "null"

tagName(n) ==
    CASE n = 1 -> "html" [] n = 2 -> "body" [] n = 3 -> "div" [] n = 4 -> "a" [] n = 5 -> "span"
      [] n = 7 -> "svg" [] n = 8 -> "foreignObject" [] n \in {9, 10} -> "button"
      [] OTHER -> ""

\* target instanceof HTMLElement
IsHTMLElement(n) == Interface(n) = "HTMLElement"

\* target.matches(selector), the selector a list of tag names.
matches(n, selector) == tagName(n) \in selector

Selectors == {{"a", "button"}, {"a", "span", "div"}, {"p"}}

ArgCounts == 1..4

(***************************************************************************)
(* wDOM.on(eventName, selectorOrCallback, callback?)                       *)
(***************************************************************************)
\* The do-while of the delegating listener: the nodes callback.call(target,
\* event) is made for, in the order of the calls.
RECURSIVE Delegated(_, _, _)
Delegated(target, selector, currentTarget) ==
    LET here == IF matches(target, selector) THEN <<target>> ELSE <<>>
        next == parentNode(target)
    IN IF IsHTMLElement(next) /\ next # currentTarget
       THEN here \o Delegated(next, selector, currentTarget)
       ELSE here

\* What a listener registered by on() does with an event that reaches the
\* document: the values of this its callback is called with.
Listener(l, target) ==
    IF l.nargs = 2 THEN <<DocumentNode>>
    ELSE IF ~IsHTMLElement(target) THEN <<>>
    ELSE Delegated(target, l.selector, DocumentNode)

\* A call of on() that takes more than three arguments as three.
wDOM_on_lenient(d, nargs, selector) ==
    IF nargs = 2
    THEN [d EXCEPT !.listeners = Append(@, [nargs |-> 2, selector |-> {}]),
                   !.out = [kind |-> "returned", err |-> ""]]
    ELSE IF nargs >= 3
    THEN [d EXCEPT !.listeners = Append(@, [nargs |-> 3, selector |-> selector]),
                   !.out = [kind |-> "returned", err |-> ""]]
    ELSE [d EXCEPT !.out = [kind |-> "thrown", err |-> "Invalid call signature."]]

wDOM_on(d, nargs, selector) ==
    IF nargs = 2
    THEN [d EXCEPT !.listeners = Append(@, [nargs |-> 2, selector |-> {}]),
                   !.out = [kind |-> "returned", err |-> ""]]
    ELSE IF nargs = 3
    THEN [d EXCEPT !.listeners = Append(@, [nargs |-> 3, selector |-> selector]),
                   !.out = [kind |-> "returned", err |-> ""]]
    ELSE [d EXCEPT !.out = [kind |-> "thrown", err |-> "Invalid call signature."]]

\* An event dispatched at target bubbles to the document, whose listeners run
\* in the order of their registration.
dispatchEvent(d, target) ==
    [d EXCEPT !.event = <<target>>,
              !.heard = [l \in 1..Len(d.listeners) |-> Listener(d.listeners[l], target)],
              !.out = [kind |-> "none", err |-> ""]]

(***************************************************************************)
(* wDOM.onDocReady(callback), wDOM.onWinLoaded(callback)                   *)
(***************************************************************************)
Hook(kind, d) == [kind |-> kind, at |-> d.readyState]

Run(d, callback, sync) == [d EXCEPT !.ran = Append(@, [callback |-> callback, sync |-> sync])]

\* An onDocReady that also listens when it has fired the callback.
wDOM_onDocReady_both(d) ==
    LET callback == Len(d.hooks) + 1
        d1 == [d EXCEPT !.hooks = Append(@, Hook("doc", d)),
                        !.contentLoadedListeners = Append(@, callback)]
    IN IF "loading" # d.readyState THEN Run(d1, callback, TRUE) ELSE d1

\* The callback is the next in the order of registration.
wDOM_onDocReady(d) ==
    LET callback == Len(d.hooks) + 1
        d1 == [d EXCEPT !.hooks = Append(@, Hook("doc", d))]
    IN IF "loading" # d.readyState THEN Run(d1, callback, TRUE)
       ELSE [d1 EXCEPT !.contentLoadedListeners = Append(@, callback)]

wDOM_onWinLoaded(d) ==
    LET callback == Len(d.hooks) + 1
        d1 == [d EXCEPT !.hooks = Append(@, Hook("win", d))]
    IN IF "complete" = d.readyState THEN Run(d1, callback, TRUE)
       ELSE [d1 EXCEPT !.loadListeners = Append(@, callback)]

\* The listeners of a signal run, each calling its callback.
RECURSIVE RunAll(_, _)
RunAll(d, callbacks) ==
    IF callbacks = <<>> THEN d ELSE RunAll(Run(d, Head(callbacks), FALSE), Tail(callbacks))

(***************************************************************************)
(* wDOM.debounce(callback, delay, immediate): the wrapper it returns, with *)
(* the timeout variable of its closure and the timers of the window.       *)
(***************************************************************************)
\* callback.apply(this, args): arg names the call whose this and args it gets.
Apply(b, arg, sync) == [b EXCEPT !.ran = Append(@, [arg |-> arg, at |-> b.now, sync |-> sync])]

clearTimeout(b, id) == [b EXCEPT !.timers = {t \in @ : t.id # id}]

\* timeout = window.setTimeout(afterDelay, delay): timer ids are positive.
setTimeout(b, arg) ==
    [b EXCEPT !.timers = @ \cup {[id |-> b.nextId, due |-> b.now + b.delay, arg |-> arg]},
              !.timeout = b.nextId,
              !.nextId = @ + 1]

\* A wrapper that leaves the pending timer in place.
wDOM_debounced_noClear(b, arg) ==
    setTimeout(IF b.timeout # 0 THEN b ELSE IF b.immediate THEN Apply(b, arg, TRUE) ELSE b, arg)

\* The wrapper, called with the this and args that arg names.
wDOM_debounced(b, arg) ==
    LET b1 == IF b.timeout # 0 THEN clearTimeout(b, b.timeout)
              ELSE IF b.immediate THEN Apply(b, arg, TRUE)
              ELSE b
    IN setTimeout(b1, arg)

\* An afterDelay that calls the callback at the end of every burst.
afterDelay_always(b, t) ==
    [Apply(b, t.arg, FALSE) EXCEPT !.timeout = 0, !.timers = @ \ {t}]

\* afterDelay of the call that set timer t, run by the timer.
afterDelay(b, t) ==
    LET b1 == IF ~b.immediate THEN Apply(b, t.arg, FALSE) ELSE b IN
    [b1 EXCEPT !.timeout = 0, !.timers = @ \ {t}]

Delays == {1, 2}

(***************************************************************************)
(* createElement(tag, attrs): the element has its attributes and the       *)
(* properties assigned to it, each a sequence of [k, v] in the order they   *)
(* were first set.                                                          *)
(***************************************************************************)
Fn == [t |-> "function", txt |-> "fn", len |-> 0, cut |-> FALSE]
Null == [t |-> "null", txt |-> "null", len |-> 0, cut |-> FALSE]
Obj == [t |-> "object", txt |-> "[object Object]", len |-> 15, cut |-> FALSE]

isFunction(v) == v.t = "function"
isNumber(v) == v.t = "number"

\* String(value) of a string or a number.
StringOf(v) == IF isString(v) THEN v ELSE SV(v.txt, Len(v.txt))

\* element.setAttribute(name, value): a new attribute, or a new value for the
\* attribute of that name.
setAttribute(element, name, value) == [element EXCEPT !.attributes = Put(@, name, value)]

\* element[attr] = value
setProperty(element, name, value) == [element EXCEPT !.properties = Put(@, name, value)]

\* The first loop: callables become properties of the element.
RECURSIVE BindFunctions(_, _)
BindFunctions(element, attrs) ==
    IF attrs = <<>> THEN element
    ELSE LET attr == Head(attrs) IN
         BindFunctions(IF isFunction(attr.v) THEN setProperty(element, attr.k, attr.v) ELSE element,
                       Tail(attrs))

\* A second loop that gives every boolean an empty attribute.
RECURSIVE SetAttributes_anyBoolean(_, _)
SetAttributes_anyBoolean(element, attrs) ==
    IF attrs = <<>> THEN element
    ELSE LET attr == Head(attrs) IN
         SetAttributes_anyBoolean(
             IF attr.v.t = "boolean" THEN setAttribute(element, attr.k, Empty)
             ELSE IF isString(attr.v) \/ isNumber(attr.v) THEN setAttribute(element, attr.k, StringOf(attr.v))
             ELSE element,
             Tail(attrs))

\* The second loop: true, strings and numbers become attributes.
RECURSIVE SetAttributes(_, _)
SetAttributes(element, attrs) ==
    IF attrs = <<>> THEN element
    ELSE LET attr == Head(attrs) IN
         SetAttributes(
             IF attr.v = Bool(TRUE) THEN setAttribute(element, attr.k, Empty)
             ELSE IF isString(attr.v) \/ isNumber(attr.v) THEN setAttribute(element, attr.k, StringOf(attr.v))
             ELSE element,
             Tail(attrs))

\* document.createElement(tag): an element without attributes.
NewElement(tag) == [tag |-> tag, attributes |-> <<>>, properties |-> <<>>]

createElement(tag, attrs) == SetAttributes(BindFunctions(NewElement(tag), attrs), attrs)

AttrNames == {"class", "hidden", "onclick"}

AttrValues ==
    {SV("x", 1), Empty, Num("42"), Num("0"), Bool(TRUE), Bool(FALSE), Null, Undefined, Obj, Fn}

\* The attrs objects: up to MaxAttrs entries under distinct names, in any order.
AttrCases ==
    UNION {{a \in [1..n -> [k : AttrNames, v : AttrValues]] :
               \A i, j \in 1..n : i # j => a[i].k # a[j].k} : n \in 0..MaxAttrs}

(***************************************************************************)
(* The wDOM helpers at work.                                               *)
(***************************************************************************)
TrackerVars == <<isSetupComplete, config, cache, gtag, dataLayer, readyState, loadHooks,
                 fetches, gtagLog, scripts, clickListeners, cookies, calls, env, budget, last>>

NewDocument(state) ==
    [readyState |-> state, dispatched |-> {}, hooks |-> <<>>,
     contentLoadedListeners |-> <<>>, loadListeners |-> <<>>, ran |-> <<>>,
     listeners |-> <<>>, event |-> <<>>, heard |-> <<>>, created |-> <<>>,
     out |-> [kind |-> "none", err |-> ""]]

NewDebouncer(delay, immediate) ==
    [immediate |-> immediate, delay |-> delay, timeout |-> 0, timers |-> {},
     nextId |-> 1, now |-> 0, made |-> <<>>, ran |-> <<>>]

\* The wDOM helpers left unused by the page.
NoDocument == NewDocument("complete")
NoDebouncer == NewDebouncer(1, FALSE)

\* The page calls on().
OnCalled ==
    \E nargs \in ArgCounts, selector \in Selectors :
        /\ Len(document.listeners) < MaxListeners
        /\ document' = wDOM_on(document, nargs, selector)
        /\ UNCHANGED <<TrackerVars, debouncer>>

EventDispatched ==
    \E target \in Nodes :
        /\ document.listeners # <<>>
        /\ document' = dispatchEvent(document, target)
        /\ UNCHANGED <<TrackerVars, debouncer>>

DocReadyHooked ==
    /\ Len(document.hooks) < MaxHooks
    /\ document' = wDOM_onDocReady(document)
    /\ UNCHANGED <<TrackerVars, debouncer>>

WinLoadedHooked ==
    /\ Len(document.hooks) < MaxHooks
    /\ document' = wDOM_onWinLoaded(document)
    /\ UNCHANGED <<TrackerVars, debouncer>>

\* The parser ends: readyState becomes 'interactive'.
Parsed ==
    /\ document.readyState = "loading"
    /\ document' = [document EXCEPT !.readyState = "interactive"]
    /\ UNCHANGED <<TrackerVars, debouncer>>

\* DOMContentLoaded is fired at the document.
ContentLoaded ==
    /\ document.readyState = "interactive"
    /\ "DOMContentLoaded" \notin document.dispatched
    /\ document' = RunAll([document EXCEPT !.dispatched = @ \cup {"DOMContentLoaded"}],
                          document.contentLoadedListeners)
    /\ UNCHANGED <<TrackerVars, debouncer>>

\* Every resource has loaded: readyState becomes 'complete'.
Completed ==
    /\ document.readyState = "interactive"
    /\ "DOMContentLoaded" \in document.dispatched
    /\ document' = [document EXCEPT !.readyState = "complete"]
    /\ UNCHANGED <<TrackerVars, debouncer>>

\* load is fired at the window.
Loaded ==
    /\ document.readyState = "complete"
    /\ "load" \notin document.dispatched
    /\ document' = RunAll([document EXCEPT !.dispatched = @ \cup {"load"}], document.loadListeners)
    /\ UNCHANGED <<TrackerVars, debouncer>>

\* The wrapper is called.
WrapperCalled ==
    /\ Len(debouncer.made) < MaxWrapperCalls
    /\ debouncer' = wDOM_debounced([debouncer EXCEPT !.made = Append(@, debouncer.now)],
                                   Len(debouncer.made) + 1)
    /\ UNCHANGED <<TrackerVars, document>>

\* A timer that is due runs its handler.
TimerFires ==
    \E t \in debouncer.timers :
        /\ t.due <= debouncer.now
        /\ debouncer' = afterDelay(debouncer, t)
        /\ UNCHANGED <<TrackerVars, document>>

\* Time passes, no further than the next timer.
Tick ==
    /\ debouncer.now < MaxClock
    /\ \A t \in debouncer.timers : t.due > debouncer.now
    /\ debouncer' = [debouncer EXCEPT !.now = @ + 1]
    /\ UNCHANGED <<TrackerVars, document>>

\* The page creates an element.
ElementCreated ==
    \E attrs \in AttrCases :
        /\ document.created = <<>>
        /\ document' = [document EXCEPT !.created = <<[attrs |-> attrs,
                                                        element |-> createElement("div", attrs)]>>]
        /\ UNCHANGED <<TrackerVars, debouncer>>

(***************************************************************************)
(* The click listener of the tracker: initialize registers                 *)
(*   on('click', 'a, button, input[type="button"], input[type="submit"]',  *)
(*      (event) => void trackClick(event))                                  *)
(* and a click in the page reaches it through the document.                *)
(***************************************************************************)
TrackedSelector == {"a", "button", "input[type=button]", "input[type=submit]"}

\* element.tagName of an HTML element: the tag name in upper case.
ElementTagName(n) ==
    CASE n = 4 -> SV("A", 1)
      [] n = 5 -> SV("SPAN", 4)
      [] n \in {9, 10} -> SV("BUTTON", 6)
      [] OTHER -> SV(tagName(n), Len(tagName(n)))

\* event.target as trackClick reads it: the node with its attributes.
TargetElement(target, look) == [look EXCEPT !.tagName = ElementTagName(target)]

\* The callback (event) => void trackClick(event), called once for each node
\* the delegating listener matched; the node is its this, which it leaves aside.
RECURSIVE TrackClicks(_, _, _)
TrackClicks(w, matched, element) ==
    IF matched = <<>> THEN w
    ELSE TrackClicks(trackClick(w, element, <<>>, "auto"), Tail(matched), element)

\* The click listeners of the tracker hear a click at target.
RECURSIVE clicked(_, _, _, _)
clicked(w, n, target, element) ==
    IF n = 0 THEN w
    ELSE clicked(TrackClicks(w, Listener([nargs |-> 3, selector |-> TrackedSelector], target), element),
                 n - 1, target, element)

ClickTargets == {4, 5, 7, 10}

Looks == {Link, Blank}

AutoClicks == {c \in 1..Len(calls) : calls[c].by = "auto" /\ calls[c].name = SV("x_click", 7)}

\* The visitor clicks in the page.
Clicked ==
    \E target \in ClickTargets, look \in Looks :
        /\ clickListeners > 0
        /\ Cardinality(AutoClicks) < MaxClicks
        /\ Env(clicked(World, clickListeners, target, TargetElement(target, look)))

(***************************************************************************)
(* The page from its load on.                                              *)
(***************************************************************************)
Page(E) ==
    /\ isSetupComplete = FALSE
    /\ config = <<>>
    /\ cache = <<>>
    /\ \E g \in {<<"none", <<>> >>, <<"host", << <<>> >> >>} :
          gtag = g[1] /\ dataLayer = g[2]
    /\ readyState \in {"loading", "complete"}
    /\ loadHooks = 0
    /\ fetches = <<>>
    /\ gtagLog = <<>>
    /\ scripts = <<>>
    /\ clickListeners = 0
    /\ cookies = <<>>
    /\ calls = <<>>
    /\ env \in E
    /\ last = [op |-> "none", kind |-> "none", err |-> ""]
    /\ document = NoDocument
    /\ debouncer = NoDebouncer

Browser ==
    \/ WindowLoad
    \/ GeoResponse
    \/ GeoFailure
    \/ ScriptLoad
    \/ ScriptError
    \/ GtagAnswer(AnswerValues)

\* The whole interface, called by a host page that starts few promises.
Init ==
    /\ Page(TwoEnvs)
    /\ budget = [calls |-> MaxHostCalls, fetches |-> MaxHostFetches]

Next ==
    \/ HostSetup(FewSetupOpts)
    \/ HostUserId
    \/ HostClientId
    \/ HostSessionId
    \/ HostGeoData
    \/ HostTrackPageView({<<>>})
    \/ HostTrackClick(ClickInputs)
    \/ HostTrackEvent(EventInputs)
    \/ Browser

Spec == Init /\ [][Next]_vars

\* The geolocation lookup: the host page calls geoData() beside the tracker.
InitGeo ==
    /\ Page(TwoEnvs)
    /\ budget = [calls |-> 0, fetches |-> MaxGeoFetches]

NextGeo ==
    \/ HostSetup(FewSetupOpts)
    \/ HostGeoData
    \/ Browser

SpecGeo == InitGeo /\ [][NextGeo]_vars

\* The life of the tracker from setup to initialize, over the pages and
\* visitors that decide the consent question.
InitLifecycle ==
    /\ Page(Envs)
    /\ budget = [calls |-> 0, fetches |-> 0]

NextLifecycle ==
    \/ HostSetup(SetupOpts)
    \/ Browser

SpecLifecycle == InitLifecycle /\ [][NextLifecycle]_vars

\* The event payload, over the names, props, configurations and pages that
\* decide it; the tag library is on the page and answers the queries.
InitPayload ==
    /\ Page(PayloadEnvs)
    /\ gtag = "host"
    /\ readyState = "loading"
    /\ budget = [calls |-> MaxPayloadCalls, fetches |-> 0]

NextPayload ==
    \/ HostSetup(PayloadOpts)
    \/ HostTrackPageView({<<>>})
    \/ HostTrackClick(RichClickInputs)
    \/ HostTrackEvent(RichEventInputs)
    \/ GtagAnswer(RichAnswerValues)

SpecPayload == InitPayload /\ [][NextPayload]_vars

\* Events of the host page beside the life of the tracker: the host page
\* tracks an event at any moment after the page starts to load.
InitGate ==
    /\ Page({PlainEnv})
    /\ budget = [calls |-> MaxGateCalls, fetches |-> 0]

NextGate ==
    \/ HostSetup({[NoOpts EXCEPT !.ga4GtagId = Ga4Id, !.csGDPRScriptId = SV("cs-1", 4)]})
    \/ HostTrackEvent({[name |-> XOk, props |-> <<>>]})
    \/ Browser

SpecGate == InitGate /\ [][NextGate]_vars

\* Page views and events over the queries that decide the utx_touch cookie and
\* the UTM dimensions, on a loaded page that may hold the cookie of an earlier
\* view.
InitTouch ==
    /\ isSetupComplete = FALSE
    /\ config = <<>>
    /\ cache = <<>>
    /\ gtag = "host" /\ dataLayer = << <<>> >>
    /\ readyState = "complete"
    /\ loadHooks = 0
    /\ fetches = <<>>
    /\ gtagLog = <<>>
    /\ scripts = <<>>
    /\ clickListeners = 0
    /\ cookies \in {<<>>, <<OldTouch>>}
    /\ calls = <<>>
    /\ env \in TouchEnvs
    /\ last = [op |-> "none", kind |-> "none", err |-> ""]
    /\ budget = [calls |-> MaxTouchCalls, fetches |-> 0]
    /\ document = NoDocument
    /\ debouncer = NoDebouncer

NextTouch ==
    \/ HostSetup({[NoOpts EXCEPT !.ga4GtagId = Ga4Id]})
    \/ HostTrackPageView(TouchProps)
    \/ HostTrackEvent({[name |-> XOk, props |-> p] : p \in TouchProps})
    \/ GeoResponse
    \/ GeoFailure
    \/ ScriptLoad
    \/ ScriptError
    \/ GtagAnswer(AnswerValues)

SpecTouch == InitTouch /\ [][NextTouch]_vars

\* Clicks on the elements that decide the click attributes.
InitClick ==
    /\ Page({PlainEnv})
    /\ gtag = "host"
    /\ readyState = "loading"
    /\ budget = [calls |-> MaxClickCalls, fetches |-> 0]

NextClick ==
    \/ HostSetup({[NoOpts EXCEPT !.ga4GtagId = Ga4Id]})
    \/ HostTrackClick(ClickCases)
    \/ GtagAnswer(RichAnswerValues)

SpecClick == InitClick /\ [][NextClick]_vars

\* A page that leaves the tracker alone.
NoTracker ==
    /\ isSetupComplete = FALSE
    /\ config = <<>>
    /\ cache = <<>>
    /\ gtag = "none" /\ dataLayer = <<>>
    /\ readyState = "complete"
    /\ loadHooks = 0
    /\ fetches = <<>>
    /\ gtagLog = <<>>
    /\ scripts = <<>>
    /\ clickListeners = 0
    /\ cookies = <<>>
    /\ calls = <<>>
    /\ env = PlainEnv
    /\ last = [op |-> "none", kind |-> "none", err |-> ""]
    /\ budget = [calls |-> 0, fetches |-> 0]

\* Listeners registered by on(), and the events that reach them.
InitDelegate ==
    /\ NoTracker
    /\ document = NewDocument("complete")
    /\ debouncer = NoDebouncer

NextDelegate ==
    \/ OnCalled
    \/ EventDispatched

SpecDelegate == InitDelegate /\ [][NextDelegate]_vars

\* Callbacks given to onDocReady and onWinLoaded while the document loads.
InitReady ==
    /\ NoTracker
    /\ document = NewDocument("loading")
    /\ debouncer = NoDebouncer

NextReady ==
    \/ DocReadyHooked
    \/ WinLoadedHooked
    \/ Parsed
    \/ ContentLoaded
    \/ Completed
    \/ Loaded

SpecReady == InitReady /\ [][NextReady]_vars

\* A debounced wrapper called over time.
InitDebounce ==
    /\ NoTracker
    /\ document = NoDocument
    /\ \E delay \in Delays, immediate \in BOOLEAN : debouncer = NewDebouncer(delay, immediate)

NextDebounce ==
    \/ WrapperCalled
    \/ TimerFires
    \/ Tick

SpecDebounce == InitDebounce /\ [][NextDebounce]_vars

\* Elements created from the attrs objects.
InitElement ==
    /\ NoTracker
    /\ document = NoDocument
    /\ debouncer = NoDebouncer

NextElement == ElementCreated

SpecElement == InitElement /\ [][NextElement]_vars

\* What the page pushed onto window.dataLayer before the tracker was set up.
PageQueue == <<GtagArgs("js", Empty, <<>>, "page", 0)>>

\* The tag-manager globals as setup finds them: window.gtag and
\* window.dataLayer each present or absent, the queue empty or not.
InitGlobals ==
    /\ isSetupComplete = FALSE
    /\ config = <<>>
    /\ cache = <<>>
    /\ gtag \in {"none", "host"}
    /\ dataLayer \in {<<>>, << <<>> >>, <<PageQueue>>}
    /\ readyState \in {"loading", "complete"}
    /\ loadHooks = 0
    /\ fetches = <<>>
    /\ gtagLog = <<>>
    /\ scripts = <<>>
    /\ clickListeners = 0
    /\ cookies = <<>>
    /\ calls = <<>>
    /\ env = PlainEnv
    /\ last = [op |-> "none", kind |-> "none", err |-> ""]
    /\ budget = [calls |-> MaxGateCalls, fetches |-> 0]
    /\ document = NoDocument
    /\ debouncer = NoDebouncer

NextGlobals ==
    \/ HostSetup({NoOpts, [NoOpts EXCEPT !.ga4GtagId = Ga4Id]})
    \/ HostTrackEvent({[name |-> XOk, props |-> <<>>]})
    \/ Browser

SpecGlobals == InitGlobals /\ [][NextGlobals]_vars

\* The events the tracker emits on its own: the page view of initialize and
\* the clicks its listener hears, on a loaded page with the tag library.
InitAuto ==
    /\ Page(PayloadEnvs)
    /\ gtag = "host"
    /\ readyState = "complete"
    /\ budget = [calls |-> 0, fetches |-> 0]

NextAuto ==
    \/ HostSetup(PayloadOpts)
    \/ GeoResponse
    \/ Clicked
    \/ GtagAnswer(LongAnswerValues)

SpecAuto == InitAuto /\ [][NextAuto]_vars

(***************************************************************************)
(* Properties.                                                             *)
(***************************************************************************)
WorldVars == <<isSetupComplete, config, cache, gtag, dataLayer, readyState, loadHooks,
               fetches, gtagLog, scripts, clickListeners, cookies, calls, env>>

\* The step is the host page's call `op` whose effect is w.
IsCall(op, w) == Becomes(w) /\ last' = Outcome(op, w)

SetupSucceeded == isSetupComplete /\ config # <<>> /\ Truthy(config[1].ga4GtagId)

\* C1: once a setup call with a GA4 id has succeeded, every later setup call,
\* whatever its options, throws the already-set-up error and changes nothing:
\* not the configuration, not window.gtag, not window.dataLayer, and no second
\* loadThenInitialize is scheduled or run.
C1_SetupOnlyOnce ==
    [][SetupSucceeded =>
         \A configOpts \in SetupOpts :
             IsCall("setup", setup(World, configOpts)) =>
                 /\ last' = [op |-> "setup", kind |-> "thrown", err |-> "Already set up."]
                 /\ UNCHANGED WorldVars]_vars

C1_Witness ==
    /\ SetupSucceeded
    /\ loadHooks = 1
    /\ last = [op |-> "setup", kind |-> "thrown", err |-> "Already set up."]

TrackingMethods ==
    {"userId", "clientId", "sessionId", "geoData", "trackPageView", "trackClick", "trackEvent"}

\* C3 as stated: a tracking method called before setup raises the not-set-up
\* error synchronously, that is, throws it to the caller.
C3_ThrownSynchronously ==
    (last.op \in TrackingMethods /\ last.err = notSetUpErrorMsg) => last.kind = "thrown"

Refused(op, w) ==
    IsCall(op, w) =>
        /\ last' = [op |-> op, kind |-> "rejected", err |-> notSetUpErrorMsg]
        /\ UNCHANGED WorldVars

\* C3, amended: a tracking method called before setup hands back a promise
\* rejected with the not-set-up error, and the call changes nothing: no call
\* to window.gtag, no cookie, no request.
C3_RejectedBeforeSetup ==
    [][~isSetupComplete =>
         /\ Refused("userId", userId(World))
         /\ Refused("clientId", idQuery(World, "clientId"))
         /\ Refused("sessionId", idQuery(World, "sessionId"))
         /\ Refused("geoData", geoData(World, "host"))
         /\ Refused("trackPageView", trackPageView(World, <<>>, "host"))
         /\ \A in \in ClickInputs : Refused("trackClick", trackClick(World, in.element, in.props, "host"))
         /\ \A in \in EventInputs : Refused("trackEvent", trackEvent(World, in.name, in.props, "host"))]_vars

C3_Witness ==
    /\ ~isSetupComplete
    /\ last = [op |-> "trackEvent", kind |-> "rejected", err |-> notSetUpErrorMsg]
    /\ gtag = "host"

EventsLogged == {i \in 1..Len(gtagLog) : gtagLog[i].cmd = "event"}
EventsOf(c) == {i \in EventsLogged : gtagLog[i].call = c}

WithinLimits(name, data) ==
    /\ name.len <= 40
    /\ Len(data) <= 25
    /\ \A i \in 1..Len(data) :
          /\ Len(data[i].k) <= 40
          /\ data[i].v.t = "string" => data[i].v.len <= 100

\* The payload the continuation of call c merges, from what the call holds.
PayloadOf(c) ==
    EventData(World, config[1].userId, StringOrEmpty(calls[c].cid),
              StringOrEmpty(calls[c].sid), calls[c].props)

Settled(c) == calls[c].kind = "event" /\ calls[c].st # "waiting"

\* A trackEvent call with a name of more than 40 characters, after setup, is
\* rejected inside the call and reaches window.gtag not at all.
LongNameStep ==
    \A in \in RichEventInputs :
        (isSetupComplete /\ in.name.len > 40
           /\ IsCall("trackEvent", trackEvent(World, in.name, in.props, "host"))) =>
            /\ last' = [op |-> "trackEvent", kind |-> "rejected", err |-> "Event name exceeds 40 chars."]
            /\ UNCHANGED <<gtagLog, dataLayer, calls>>

\* C4: every 'event' call submitted to window.gtag is within the limits: name
\* of at most 40 characters, at most 25 parameters, keys of at most 40
\* characters, string values of at most 100 characters.  A call whose merged
\* payload breaks a limit is rejected and submits no event; an over-long name
\* is rejected before any call to window.gtag, the 'get' queries included.
C4_EventsWithinLimits ==
    /\ [](/\ \A i \in EventsLogged : WithinLimits(gtagLog[i].name, gtagLog[i].data)
          /\ \A c \in 1..Len(calls) :
                /\ (Settled(c) /\ ~WithinLimits(calls[c].name, PayloadOf(c))) =>
                       calls[c].st = "rejected" /\ calls[c].err # ""
                /\ calls[c].st = "rejected" => EventsOf(c) = {})
    /\ [][LongNameStep]_vars

C4_Witness ==
    /\ \E i \in EventsLogged : Len(gtagLog[i].data) = 25 /\ gtagLog[i].name = XOk
    /\ last.op = "trackEvent"

C4_WitnessRejected ==
    \E c \in 1..Len(calls) :
        /\ calls[c].st = "rejected"
        /\ calls[c].err = "Event parameter exceeds value limit of 100 chars."

\* C5: in a submitted payload later keys win: each key of the caller's props
\* carries the value the props give it, a built-in or UTM key among them, and
\* every built-in or UTM key the props do not name keeps its built-in value;
\* the payload has no other key.
C5_PropsWin ==
    \A i \in EventsLogged :
        LET c == gtagLog[i].call
            data == gtagLog[i].data
            props == calls[c].props
            builtIn == BuiltIns(World, config[1].userId, StringOrEmpty(calls[c].cid),
                                StringOrEmpty(calls[c].sid))
                       \o utmXQueryVarDimensions(World)
        IN /\ \A k \in Keys(props) : Get(data, k) = Get(props, k)
           /\ \A k \in Keys(builtIn) \ Keys(props) : Get(data, k) = Get(builtIn, k)
           /\ Keys(data) = Keys(builtIn) \cup Keys(props)
           /\ Len(data) = Cardinality(Keys(data))

C5_Witness ==
    \E i \in EventsLogged :
        /\ {"send_to", "x_utm_source", "x_utm_medium", "x_hostname"} \subseteq Keys(gtagLog[i].data)
        /\ Get(gtagLog[i].data, "send_to") = SV("G-OTHER", 7)
        /\ Get(gtagLog[i].data, "x_utm_source") = SV("mine", 4)
        /\ Get(gtagLog[i].data, "x_utm_medium") = SV("email", 5)
        /\ Get(gtagLog[i].data, "x_hostname") = [SV("very.long.example.com", 100) EXCEPT !.cut = TRUE]

NoneFailed == \A i \in 1..Len(fetches) : fetches[i].st # "rejected"

\* C6 as stated: over any interleaving of geoData() calls after setup, calls
\* made while an earlier request is in flight included, at most one request
\* goes to the geolocation endpoint, provided no request fails.
C6_AtMostOneRequest == NoneFailed => Len(fetches) <= 1

\* The step is a call of geoData(): by the host page, or by loadThenInitialize
\* when setup runs on a loaded page or when the window load event fires.
GeoDataCalled ==
    \/ IsCall("geoData", geoData(World, "host"))
    \/ \E configOpts \in FewSetupOpts : IsCall("setup", setup(World, configOpts))
    \/ readyState = "loading" /\ readyState' = "complete"

\* C7: when a geolocation request fails, the promise of the geoData() call
\* that issued it is rejected, the failure leaves the cache as it was, empty
\* when no request has succeeded, and the module answers it with no request of
\* its own: the requests grow only in a step that calls geoData().
C7_FailureNotRetried ==
    /\ []((\A i \in 1..Len(fetches) : fetches[i].st # "resolved") => cache = <<>>)
    /\ [][/\ \A i \in 1..Len(fetches) :
                (fetches[i].st = "inflight" /\ fetches'[i].st = "rejected") =>
                    /\ cache' = cache
                    /\ Len(fetches') = Len(fetches)
                    /\ UNCHANGED <<gtagLog, scripts, calls>>
          /\ Len(fetches') > Len(fetches) => GeoDataCalled
          /\ \A i \in 1..Len(fetches) : fetches[i].st = "rejected" => fetches'[i].st = "rejected"]_vars

C7_Witness ==
    /\ \E i \in 1..Len(fetches) : fetches[i].by = "host" /\ fetches[i].st = "rejected"
    /\ \E i \in 1..Len(fetches) : fetches[i].by = "auto" /\ fetches[i].st = "rejected"
    /\ cache = <<>>
    /\ gtagLog = <<>>

Logged(cmd) == {i \in 1..Len(gtagLog) : gtagLog[i].cmd = cmd /\ gtagLog[i].by = "auto"}

Decided == \E i \in 1..Len(fetches) : fetches[i].by = "auto" /\ fetches[i].st = "resolved"

PolicyPaths == {<<"/", "privacy">>, <<"/", "COOKIES", "_", "Policy", "/", "eu">>}

DoNotTrack == env.winDNT = SV("1", 1) \/ (env.hasNavigator /\ env.navDNT = SV("1", 1))

\* C8: loadThenInitialize submits the consent default, all five storage
\* categories denied with wait_for_update 500, exactly when the country of the
\* geo data is not 'US' (a missing country is not 'US'), or do-not-track is
\* set, or the path is a privacy or cookie policy path; when none holds it
\* submits no consent call and runs initialize in the same step.
C8_ConsentDecision ==
    /\ ~Decided => Logged("consent") = {}
    /\ Decided =>
          LET needed == \/ cache[1].country # SV("US", 2)
                        \/ DoNotTrack
                        \/ env.path \in PolicyPaths
          IN /\ needed <=> Logged("consent") # {}
             /\ ~needed => Logged("js") # {}
             /\ Cardinality(Logged("consent")) <= 1
             /\ \A i \in Logged("consent") :
                   /\ gtagLog[i].name = SV("default", 7)
                   /\ Get(gtagLog[i].data, "wait_for_update") = Num("500")
                   /\ \A k \in {"ad_storage", "analytics_storage", "functionality_storage",
                                "personalization_storage", "security_storage"} :
                         Get(gtagLog[i].data, k) = SV("denied", 6)
                   /\ Len(gtagLog[i].data) = 6

C8_Witness ==
    /\ Decided
    /\ cache[1].country = SV("US", 2)
    /\ env.navDNT = SV("1", 1)
    /\ Logged("consent") # {}

C8_WitnessNone ==
    /\ Decided
    /\ cache[1].country = SV("US", 2)
    /\ env.path = <<"/", "privacy", "-", "policies">>
    /\ Logged("consent") = {}
    /\ Logged("js") # {}

Attached(src) == {i \in 1..Len(scripts) : scripts[i].src = src}
ConsentScriptLoaded == \E i \in Attached("cs") : scripts[i].st = "loaded"

\* C9: when consent is required and a consent-script id is configured,
\* initialize does not run before the consent script has loaded: the 'js' and
\* 'config' calls and the attachment of the GA4 script come only after the load
\* event of the consent script.
C9_InitializeAfterConsentScript ==
    (Logged("consent") # {} /\ HasConsentScript(World)) =>
        /\ Attached("cs") # {}
        /\ (Logged("js") # {} \/ Logged("config") # {} \/ Attached("ga4") # {}) => ConsentScriptLoaded

C9_Witness ==
    /\ Logged("consent") # {}
    /\ ConsentScriptLoaded
    /\ Logged("js") # {} /\ Logged("config") # {} /\ Attached("ga4") # {}

Before(a, b) == \A i \in Logged(a), j \in Logged(b) : i < j

\* C10: among the calls the tracker itself makes to window.gtag, the consent
\* default, when made, comes before the 'js' call, the 'js' call before the
\* 'config' call, and the 'config' call before the 'event' call of the
\* automatic page view.
C10_LifecycleOrder ==
    /\ Before("consent", "js")
    /\ Before("js", "config")
    /\ Before("config", "event")
    /\ Logged("config") # {} => Logged("js") # {}
    /\ Logged("event") # {} => Logged("config") # {}
    /\ \A i \in Logged("event") : gtagLog[i].name = SV("page_view", 9)

C10_Witness ==
    /\ Logged("consent") # {}
    /\ Logged("js") # {}
    /\ Logged("config") # {}
    /\ Logged("event") # {}

AutoPageViews == {c \in 1..Len(calls) : calls[c].by = "auto" /\ calls[c].kind = "event"}

\* C11: initialize runs at most once per page load, in whatever order the
\* window load, the geo response and the load of the consent script come: the
\* tracker makes at most one 'js' call and one 'config' call, attaches the GA4
\* script at most once, starts at most one automatic page view and registers
\* at most one click listener.
C11_InitializeOnce ==
    /\ Cardinality(Logged("js")) <= 1
    /\ Cardinality(Logged("config")) <= 1
    /\ Cardinality(Attached("ga4")) <= 1
    /\ Cardinality(AutoPageViews) <= 1
    /\ clickListeners <= 1
    /\ Cardinality(Attached("cs")) <= 1

C11_Witness ==
    /\ Cardinality(Logged("js")) = 1
    /\ Cardinality(Logged("config")) = 1
    /\ Cardinality(Attached("ga4")) = 1
    /\ Cardinality(AutoPageViews) = 1
    /\ clickListeners = 1
    /\ ConsentScriptLoaded
    /\ \A i \in 1..Len(scripts) : scripts[i].st = "loaded"
    /\ last.op = "setup" /\ last.kind = "thrown"

\* loadThenInitialize has the geo data and has decided: it has made the
\* consent call or gone on to initialize.
DecisionMade == Logged("consent") # {} \/ Logged("js") # {}

\* C12 as stated: no 'event' call, of the tracker or of a call of the host page
\* to trackEvent, trackPageView or trackClick after setup, reaches window.gtag
\* before loadThenInitialize has the geo data and has made its consent
\* decision.
C12_NoEventBeforeDecision == EventsLogged # {} => DecisionMade

\* The same on a page where setup installed window.gtag itself.
C12_StubQueuesUntilDecision == (gtag = "stub" /\ EventsLogged # {}) => DecisionMade

UtmFamily == {"utm_source", "utm_medium", "utm_campaign", "utm_content", "utm_term", "utx_ref"}

\* The text trackPageView puts in the utx_touch cookie: the ut[mx]_* variables
\* of the query, in the order of the query.
Snapshot == [json |-> SelectSeq(env.query, LAMBDA q : q.k \in UtmFamily)]

PageViewsLogged == {i \in EventsLogged : gtagLog[i].name = SV("page_view", 9)}

C13_WitnessAbsent ==
    /\ env.query = NoSourceQuery
    /\ cookies = <<OldTouch>>
    /\ \E i \in PageViewsLogged : gtagLog[i].by = "host"

Clipped100(v) == IF v.len > 100 THEN [v EXCEPT !.len = 100, !.cut = TRUE] ELSE v

\* C14: every event submitted carries, for each of utm_source, utm_medium,
\* utm_campaign, utm_content, utm_term and utx_ref the query holds, the
\* dimension x_<name> with the value of the query cut to 100 characters, unless
\* the props of the call name that key, and carries no x_<name> for any other
\* variable of the query.
C14_UtmDimensions ==
    \A i \in EventsLogged :
        LET props == calls[gtagLog[i].call].props
            data == gtagLog[i].data
        IN \A q \in 1..Len(env.query) :
              LET x == "x_" \o env.query[q].k IN
              IF Has(props, x) THEN Get(data, x) = Get(props, x)
              ELSE IF env.query[q].k \in UtmFamily
                   THEN Has(data, x) /\ Get(data, x) = Clipped100(env.query[q].v)
                   ELSE ~Has(data, x)

C14_Witness ==
    /\ env.query = AllUtmQuery
    /\ \E i \in EventsLogged :
          /\ gtagLog[i].name = XOk
          /\ Get(gtagLog[i].data, "x_utm_campaign") = [SV("spring", 100) EXCEPT !.cut = TRUE]
          /\ Get(gtagLog[i].data, "x_utm_medium") = SV("mine", 4)
          /\ Get(gtagLog[i].data, "x_utx_ref") = SV("r", 1)
          /\ ~Has(gtagLog[i].data, "x_utm_id")

NonEmpty(v) == v.t = "string" /\ v.len > 0

\* The first value of the sequence that is a non-empty string, else ''.
RECURSIVE FirstNonEmpty(_)
FirstNonEmpty(vs) ==
    IF vs = <<>> THEN Empty
    ELSE IF NonEmpty(Head(vs)) THEN Head(vs) ELSE FirstNonEmpty(Tail(vs))

\* The identifier of the first class token of the form click-id=<identifier>.
ClickIdToken(class) == FirstNonEmpty([i \in 1..Len(class) |-> class[i].id])

\* The length of the inner text with every run of white space taken as one
\* space and the white space at both ends removed.
TrimmedLength(runs) ==
    LET inner == {i \in 1..Len(runs) : ~runs[i].ws}
        lo == CHOOSE i \in inner : \A j \in inner : i <= j
        hi == CHOOSE i \in inner : \A j \in inner : j <= i
        Size[i \in 0..Len(runs)] ==
            IF i = 0 THEN 0
            ELSE Size[i - 1] + (IF i < lo \/ i > hi THEN 0 ELSE IF runs[i].ws THEN 1 ELSE runs[i].n)
    IN IF inner = {} THEN 0 ELSE Size[Len(runs)]

LowerTag(tag) ==
    CASE tag = "A" -> "a" [] tag = "BUTTON" -> "button" [] tag = "INPUT" -> "input" [] tag = "SPAN" -> "span"

\* The four click attributes of an element, by the precedence of the claim.
Derived(e) ==
    [x_flex_id |-> Clipped100(FirstNonEmpty(<<e.id, ClickIdToken(e.class)>>)),
     x_flex_sub_id |-> Clipped100(FirstNonEmpty(<<e.href>>)),
     x_flex_value |-> Clipped100(FirstNonEmpty(<<e.title, SV(e.text, TrimmedLength(e.innerText)), e.value>>)),
     x_flex_sub_value |-> SV(LowerTag(e.tagName.txt), e.tagName.len)]

FlexKeys == {"x_flex_id", "x_flex_sub_id", "x_flex_value", "x_flex_sub_value"}

ClicksLogged == {i \in EventsLogged : gtagLog[i].name = SV("x_click", 7)}

\* C15: trackClick, after setup, hands trackEvent the name x_click and, for
\* each of x_flex_id, x_flex_sub_id, x_flex_value and x_flex_sub_value, the
\* value of the caller's props when the props name the key, else the value
\* derived from the target element: the id, else the click-id token of the
\* class, else ''; the href or ''; the title, else the normalized trimmed
\* inner text, else the value attribute, else ''; the lower-cased tag name;
\* each cut to 100 characters.  The x_click event submitted carries them.
C15_ClickAttributes ==
    /\ [](\A i \in ClicksLogged : \A k \in FlexKeys :
              Get(gtagLog[i].data, k) = Get(calls[gtagLog[i].call].props, k))
    /\ [][\A in \in ClickCases :
            (isSetupComplete /\ IsCall("trackClick", trackClick(World, in.element, in.props, "host"))) =>
                /\ Len(calls') = Len(calls) + 1
                /\ LET call == calls'[Len(calls')] IN
                      /\ call.name = SV("x_click", 7)
                      /\ \A k \in FlexKeys :
                            Get(call.props, k) =
                                IF Has(in.props, k) THEN Get(in.props, k)
                                ELSE CASE k = "x_flex_id" -> Derived(in.element).x_flex_id
                                       [] k = "x_flex_sub_id" -> Derived(in.element).x_flex_sub_id
                                       [] k = "x_flex_value" -> Derived(in.element).x_flex_value
                                       [] k = "x_flex_sub_value" -> Derived(in.element).x_flex_sub_value]_vars

C15_Witness ==
    \E i \in ClicksLogged :
        /\ Get(gtagLog[i].data, "x_flex_id") = SV("cta", 3)
        /\ Get(gtagLog[i].data, "x_flex_sub_id") = [SV("/pricing?plan=...", 100) EXCEPT !.cut = TRUE]
        /\ Get(gtagLog[i].data, "x_flex_value") = [SV("long text", 100) EXCEPT !.cut = TRUE]
        /\ Get(gtagLog[i].data, "x_flex_sub_value") = SV("a", 1)

C15_WitnessValue ==
    \E i \in ClicksLogged :
        /\ Get(gtagLog[i].data, "x_flex_id") = SV("two", 3)
        /\ Get(gtagLog[i].data, "x_flex_sub_id") = Empty
        /\ Get(gtagLog[i].data, "x_flex_value") = [SV("Send", 100) EXCEPT !.cut = TRUE]
        /\ Get(gtagLog[i].data, "x_flex_sub_value") = SV("input", 5)

C15_WitnessText ==
    \E i \in ClicksLogged :
        /\ Get(gtagLog[i].data, "x_flex_id") = Empty
        /\ Get(gtagLog[i].data, "x_flex_value") = SV("Go", 2)
        /\ Get(gtagLog[i].data, "x_flex_sub_value") = SV("button", 6)

C15_WitnessOverride ==
    \E i \in ClicksLogged :
        /\ Get(gtagLog[i].data, "x_flex_id") = SV("card", 4)
        /\ Get(gtagLog[i].data, "x_flex_value") = SV("mine", 4)
        /\ Get(gtagLog[i].data, "x_flex_sub_value") = Num("7")

IsElement(n) == Interface(n) \in {"HTMLElement", "SVGElement"}

\* The nodes from n up its chain of parents to the document.
RECURSIVE PathUp(_)
PathUp(n) == IF n = -1 THEN <<>> ELSE <<n>> \o PathUp(parentNode(n))

\* The elements on the path from the target to the document that match the
\* selector, from the target up.
MatchingOnPath(target, selector) ==
    SelectSeq(PathUp(target), LAMBDA n : IsElement(n) /\ tagName(n) \in selector)

Delegating == {l \in 1..Len(document.heard) : document.listeners[l].nargs = 3}

\* C16 as stated: for a listener registered with on(eventName, selector, cb),
\* an event whose target is an element calls cb once for each element that
\* matches the selector on the path from the target up to the document, from
\* the target up, and not at all when none matches; an event whose target is
\* not an element never calls cb.
C16_OncePerMatchingElement ==
    document.event # <<>> =>
        \A l \in Delegating :
            document.heard[l] =
                IF IsElement(document.event[1])
                THEN MatchingOnPath(document.event[1], document.listeners[l].selector)
                ELSE <<>>

\* The same for a target all of whose ancestor elements are HTML elements.
HTMLPath(n) == IsHTMLElement(n) /\ \A i \in 1..Len(PathUp(n)) : IsElement(PathUp(n)[i]) => IsHTMLElement(PathUp(n)[i])

C16_OncePerMatchingHTMLElement ==
    (document.event # <<>> /\ (HTMLPath(document.event[1]) \/ ~IsElement(document.event[1]))) =>
        \A l \in Delegating :
            document.heard[l] =
                IF IsElement(document.event[1])
                THEN MatchingOnPath(document.event[1], document.listeners[l].selector)
                ELSE <<>>

\* C17: a call of on() with a number of arguments other than two or three
\* throws the invalid-call-signature error and registers no listener.
C17_InvalidCallSignature ==
    [][\A nargs \in ArgCounts, selector \in Selectors :
          (nargs \notin {2, 3} /\ document' = wDOM_on(document, nargs, selector)) =>
              /\ document'.out = [kind |-> "thrown", err |-> "Invalid call signature."]
              /\ document'.listeners = document.listeners]_vars

C17_Witness ==
    /\ document.out = [kind |-> "thrown", err |-> "Invalid call signature."]
    /\ Len(document.listeners) = 1
    /\ document.event # <<>>

Times(callback) == Cardinality({i \in 1..Len(document.ran) : document.ran[i].callback = callback})

\* The state the hook waits for held when the callback was registered.
HeldAtRegistration(h) ==
    IF h.kind = "doc" THEN h.at \in {"interactive", "complete"} ELSE h.at = "complete"

Signal(h) == IF h.kind = "doc" THEN "DOMContentLoaded" ELSE "load"

\* C18: a callback given to onDocReady (onWinLoaded) runs inside the call when
\* the document is already interactive or complete (complete); otherwise it
\* has not run while DOMContentLoaded (load) has not been fired and has run
\* once when it has; it never runs a second time.
C18_HookFiresOnce ==
    \A c \in 1..Len(document.hooks) :
        LET h == document.hooks[c] IN
        /\ Times(c) <= 1
        /\ \A i \in 1..Len(document.ran) :
              document.ran[i].callback = c => (document.ran[i].sync <=> HeldAtRegistration(h))
        /\ HeldAtRegistration(h) => Times(c) = 1
        /\ ~HeldAtRegistration(h) => Times(c) = (IF Signal(h) \in document.dispatched THEN 1 ELSE 0)

C18_Witness ==
    /\ document.dispatched = {"DOMContentLoaded", "load"}
    /\ Len(document.hooks) = 3
    /\ document.hooks[1] = [kind |-> "doc", at |-> "loading"]
    /\ document.hooks[2] = [kind |-> "win", at |-> "interactive"]
    /\ document.hooks[3] = [kind |-> "win", at |-> "complete"]
    /\ document.ran = <<[callback |-> 1, sync |-> FALSE], [callback |-> 3, sync |-> TRUE],
                        [callback |-> 2, sync |-> FALSE]>>

WrapperCalls == 1..Len(debouncer.made)

\* The invocations of the callback made with the this and args of call k.
RanFor(k) == {i \in 1..Len(debouncer.ran) : debouncer.ran[i].arg = k}

\* Time between call k and the call before it.
Gap(k) == debouncer.made[k] - debouncer.made[k - 1]

\* C19: with immediate = false the callback is invoked by the timer only, with
\* the this and args of a call that no call followed within less than the
\* delay, no sooner than the delay after that call, and once; a call followed
\* by another within less than the delay gives no invocation; a call that none
\* followed within the delay has given exactly one once the delay is over.
C19_TrailingOncePerBurst ==
    ~debouncer.immediate =>
        /\ \A i \in 1..Len(debouncer.ran) :
              LET r == debouncer.ran[i] IN
              /\ ~r.sync
              /\ r.at >= debouncer.made[r.arg] + debouncer.delay
              /\ \A j \in WrapperCalls : j > r.arg => debouncer.made[j] >= r.at
        /\ \A k \in WrapperCalls :
              /\ Cardinality(RanFor(k)) <= 1
              /\ (k + 1 \in WrapperCalls /\ Gap(k + 1) < debouncer.delay) => RanFor(k) = {}
              /\ (k + 1 \in WrapperCalls /\ Gap(k + 1) > debouncer.delay) => Cardinality(RanFor(k)) = 1
              /\ (k + 1 \notin WrapperCalls /\ debouncer.now > debouncer.made[k] + debouncer.delay) =>
                    Cardinality(RanFor(k)) = 1

C19_Witness ==
    /\ ~debouncer.immediate
    /\ debouncer.delay = 2
    /\ debouncer.made = <<0, 1, 2>>
    /\ debouncer.ran = <<[arg |-> 3, at |-> 4, sync |-> FALSE]>>
    /\ debouncer.now = 5

\* C20: with immediate = true the callback is invoked inside a call only, with
\* the this and args of that call: the first call, and every call that comes
\* more than the delay after the call before it; a call that comes less than
\* the delay after the call before it invokes nothing; the timer invokes
\* nothing.
C20_LeadingOncePerBurst ==
    debouncer.immediate =>
        /\ \A i \in 1..Len(debouncer.ran) :
              LET r == debouncer.ran[i] IN
              /\ r.sync
              /\ r.at = debouncer.made[r.arg]
              /\ r.arg = 1 \/ Gap(r.arg) >= debouncer.delay
        /\ \A k \in WrapperCalls :
              /\ Cardinality(RanFor(k)) <= 1
              /\ (k = 1 \/ Gap(k) > debouncer.delay) => Cardinality(RanFor(k)) = 1
              /\ (k > 1 /\ Gap(k) < debouncer.delay) => RanFor(k) = {}

C20_Witness ==
    /\ debouncer.immediate
    /\ debouncer.delay = 2
    /\ debouncer.made = <<0, 1, 4>>
    /\ debouncer.ran = <<[arg |-> 1, at |-> 0, sync |-> TRUE], [arg |-> 3, at |-> 4, sync |-> TRUE]>>
    /\ debouncer.timers = {}
    /\ debouncer.now = 6

\* C21: createElement maps each entry of attrs by the type of its value.  A
\* callable is a property of the element and no attribute; true is an
\* attribute with the empty value; a string or a number is an attribute whose
\* value is its string form; any other value gives neither attribute nor
\* property; and the element has no attribute attrs did not name.
C21_AttrsByType ==
    \A c \in 1..Len(document.created) :
        LET attrs == document.created[c].attrs
            element == document.created[c].element
        IN /\ \A i \in 1..Len(attrs) :
                 LET k == attrs[i].k
                     v == attrs[i].v
                 IN CASE v.t = "function" ->
                            /\ Has(element.properties, k) /\ Get(element.properties, k) = v
                            /\ ~Has(element.attributes, k)
                      [] v = Bool(TRUE) ->
                            /\ Has(element.attributes, k) /\ Get(element.attributes, k) = Empty
                            /\ ~Has(element.properties, k)
                      [] v.t = "string" ->
                            /\ Has(element.attributes, k) /\ Get(element.attributes, k) = v
                            /\ ~Has(element.properties, k)
                      [] v.t = "number" ->
                            /\ Has(element.attributes, k)
                            /\ Get(element.attributes, k) = SV(v.txt, Len(v.txt))
                            /\ ~Has(element.properties, k)
                      [] OTHER -> ~Has(element.attributes, k) /\ ~Has(element.properties, k)
           /\ Keys(element.attributes) \subseteq Keys(attrs)
           /\ Keys(element.properties) \subseteq Keys(attrs)
           /\ Len(element.attributes) = Cardinality(Keys(element.attributes))

\* createElement('div', {class: 'x', hidden: true}) and an onclick handler.
C21_Witness ==
    \E c \in 1..Len(document.created) :
        /\ document.created[c].attrs =
               <<[k |-> "hidden", v |-> Bool(TRUE)], [k |-> "onclick", v |-> Fn]>>
        /\ document.created[c].element =
               [tag |-> "div", attributes |-> <<[k |-> "hidden", v |-> Empty]>>,
                properties |-> <<[k |-> "onclick", v |-> Fn]>>]

\* An entry of value false leaves the element bare.
C21_WitnessFalse ==
    \E c \in 1..Len(document.created) :
        /\ document.created[c].attrs =
               <<[k |-> "hidden", v |-> Bool(FALSE)], [k |-> "class", v |-> Num("42")]>>
        /\ document.created[c].element =
               [tag |-> "div", attributes |-> <<[k |-> "class", v |-> SV("42", 2)]>>,
                properties |-> <<>>]

EventCalls == {c \in 1..Len(calls) : calls[c].kind = "event"}

\* C22: a trackEvent call submits at most one 'event' call to window.gtag,
\* exactly one when its promise resolves true and none when it is rejected; a
\* call that has settled stays as it settled, and no later step submits an
\* event for it.
C22_FireAndForget ==
    /\ [](\A c \in EventCalls :
             /\ Cardinality(EventsOf(c)) <= 1
             /\ calls[c].st = "resolved" => Cardinality(EventsOf(c)) = 1
             /\ calls[c].st = "rejected" => EventsOf(c) = {})
    /\ [][\A c \in EventCalls :
             calls[c].st # "waiting" =>
                 /\ calls'[c] = calls[c]
                 /\ \A i \in (1..Len(gtagLog')) \ (1..Len(gtagLog)) : gtagLog'[i].call # c]_vars

C22_Witness ==
    \E c \in EventCalls :
        /\ calls[c].st = "resolved"
        /\ Cardinality(EventsOf(c)) = 1
        /\ calls[c].props # <<>>

\* A call refused by the validation has submitted nothing.
C22_WitnessFailed ==
    \E c \in EventCalls :
        /\ calls[c].st = "rejected"
        /\ calls[c].err = "Event data exceeds total limit of 25 parameters."
        /\ EventsLogged = {}

InFlight == {i \in 1..Len(fetches) : fetches[i].st = "inflight"}

\* C23: once the cache holds the record of a successful request, every
\* geoData() call started afterwards, by the host page or by
\* loadThenInitialize, resolves from the cache and issues no request; the
\* cached record is never cleared, and it is replaced only by the response of
\* a request that was in flight beside the one that filled it.
C23_CachedForThePage ==
    [][cache # <<>> =>
          /\ Len(fetches') = Len(fetches)
          /\ cache' # <<>>
          /\ InFlight = {} => cache' = cache
          /\ IsCall("geoData", geoData(World, "host")) =>
                 /\ last' = [op |-> "geoData", kind |-> "resolved", err |-> ""]
                 /\ UNCHANGED WorldVars]_vars

\* The host page's request filled the cache, the window load came after it,
\* and a later geoData() call of the host page resolved: one request in all.
C23_Witness ==
    /\ cache # <<>>
    /\ Len(fetches) = 1
    /\ fetches[1] = [by |-> "host", st |-> "resolved"]
    /\ readyState = "complete"
    /\ loadHooks = 1
    /\ DecisionMade
    /\ last = [op |-> "geoData", kind |-> "resolved", err |-> ""]

Initialized == Logged("js") # {}

\* Consent is required by the geo record in the cache, the visitor or the path.
Needed ==
    \/ cache[1].country # SV("US", 2)
    \/ DoNotTrack
    \/ env.path \in PolicyPaths

GeoFailed == \E i \in 1..Len(fetches) : fetches[i].by = "auto" /\ fetches[i].st = "rejected"

\* C24: after a successful setup initialize has run exactly when the window
\* has loaded, the geolocation request of loadThenInitialize has succeeded,
\* and either consent is not required or a consent-script id is configured and
\* the consent script has loaded; initialize runs in the very step that makes
\* the last of these true.  When consent is required and no consent-script id
\* is configured, or when the request has failed, initialize has not run; and
\* while it has not run there is no automatic page view, no click listener and
\* no GA4 script.
C24_InitializedIff ==
    /\ Initialized <=>
           /\ SetupSucceeded
           /\ readyState = "complete"
           /\ Decided
           /\ \/ ~Needed
              \/ Truthy(config[1].csGDPRScriptId) /\ ConsentScriptLoaded
    /\ (Decided /\ Needed /\ ~Truthy(config[1].csGDPRScriptId)) => ~Initialized
    /\ GeoFailed => ~Initialized /\ ~Decided
    /\ ~Initialized => AutoPageViews = {} /\ clickListeners = 0 /\ Attached("ga4") = {}
    /\ Initialized => Cardinality(AutoPageViews) = 1 /\ clickListeners = 1

\* Initialized through the consent script.
C24_Witness ==
    /\ Initialized
    /\ Needed
    /\ ConsentScriptLoaded
    /\ clickListeners = 1

\* Consent required on a loaded page with no consent script configured.
C24_WitnessStuck ==
    /\ SetupSucceeded
    /\ readyState = "complete"
    /\ Decided
    /\ Needed
    /\ ~Truthy(config[1].csGDPRScriptId)
    /\ ~Initialized
    /\ scripts = <<>>

\* The geolocation request failed.
C24_WitnessGeoFailed ==
    /\ SetupSucceeded
    /\ readyState = "complete"
    /\ GeoFailed
    /\ gtagLog = <<>>

\* The step is a setup call that succeeds.
SetupSucceeds == ~SetupSucceeded /\ SetupSucceeded'

\* The calls made to window.gtag in the step, in their order.
NewGtagCalls == SubSeq(gtagLog', Len(gtagLog) + 1, Len(gtagLog'))

\* C25: a setup that succeeds leaves a window.gtag it finds as it is and leaves
\* a window.dataLayer it finds with the contents it has; it installs the stub
\* only where window.gtag is absent and an empty queue only where
\* window.dataLayer is absent.  From then on every call to the stub appends one
\* entry holding the arguments of the call to window.dataLayer, in the order of
\* the calls, and no entry is removed or moved; a function of the page is never
\* replaced, and the tracker itself never writes to the queue beside it.
C25_GlobalsOnlyIfAbsent ==
    [][/\ SetupSucceeds =>
             /\ gtag' = (IF gtag = "none" THEN "stub" ELSE gtag)
             /\ dataLayer' = (IF dataLayer = <<>> THEN << <<>> >> ELSE dataLayer)
       /\ ~SetupSucceeds => gtag' = gtag
       /\ (SetupSucceeded /\ gtag = "stub") => dataLayer'[1] = dataLayer[1] \o NewGtagCalls
       /\ (SetupSucceeded /\ gtag = "host") => dataLayer' = dataLayer
       /\ (~SetupSucceeded /\ ~SetupSucceeds) => dataLayer' = dataLayer]_vars

\* The stub was installed beside a queue of the page and has been called: the
\* queue holds the entry of the page, then the calls in their order.
C25_Witness ==
    /\ gtag = "stub"
    /\ Len(gtagLog) >= 3
    /\ dataLayer = <<PageQueue \o gtagLog>>

\* The function of the page stays, beside a queue setup created for it.
C25_WitnessHost ==
    /\ SetupSucceeded
    /\ gtag = "host"
    /\ dataLayer = << <<>> >>
    /\ EventsLogged # {}

\* C26 as stated: in every state where the tracker counts as set up, the
\* stored configuration has a GA4 id; a setup call that failed for want of the
\* id has left the tracker un-set-up.
C26_SetUpHasGa4Id == isSetupComplete => SetupSucceeded

\* What holds instead: a first setup call without a GA4 id throws and leaves
\* the flag set, so that every later setup call is refused as a repeat.
C26_FailedSetupSticks ==
    [][(isSetupComplete /\ ~SetupSucceeded) =>
          /\ isSetupComplete' /\ ~SetupSucceeded'
          /\ \A configOpts \in FewSetupOpts :
                IsCall("setup", setup(World, configOpts)) =>
                    last' = [op |-> "setup", kind |-> "thrown", err |-> "Already set up."]]_vars

UserIdError == "userId exceeds limit of 36 chars."

\* C27 as stated: with a configured user id of more than 36 characters every
\* trackEvent, trackPageView and trackClick call that fails, fails with the
\* user-id error.
C27_EveryCallUserIdError ==
    (/\ config # <<>>
     /\ config[1].userId.len > 36
     /\ last.op \in {"trackEvent", "trackPageView", "trackClick"}
     /\ last.kind = "rejected") => last.err = UserIdError

\* C27, amended: with a configured user id of more than 36 characters no 'event' call
\* is ever submitted: every trackEvent, trackPageView and trackClick call that
\* passes the name check waits for the client_id and session_id answers and is
\* then rejected with the user-id error.  In a submitted payload the user_id
\* field is the whole user id, never clipped; and with an empty user id the
\* payload has neither user_id nor user_properties, unless the props bring them.
C27_UserIdLimit ==
    config # <<>> =>
        /\ config[1].userId.len > 36 =>
              /\ EventsLogged = {}
              /\ \A c \in EventCalls :
                    calls[c].st # "waiting" =>
                        /\ calls[c].st = "rejected" /\ calls[c].err = UserIdError
                        /\ calls[c].cid.t # "pending" /\ calls[c].sid.t # "pending"
        /\ \A c \in EventCalls :
              calls[c].err = UserIdError => config[1].userId.len > 36
        /\ \A i \in EventsLogged :
              LET data == gtagLog[i].data
                  props == calls[gtagLog[i].call].props
              IN /\ config[1].userId.len <= 36
                 /\ ("user_id" \notin Keys(props) /\ "user_properties" \notin Keys(props)) =>
                       IF config[1].userId.len = 0
                       THEN "user_id" \notin Keys(data) /\ "user_properties" \notin Keys(data)
                       ELSE /\ {"user_id", "user_properties"} \subseteq Keys(data)
                            /\ Get(data, "user_id") = config[1].userId
                            /\ ~Get(data, "user_id").cut
                            /\ Get(data, "user_properties") = ObjectOf("x_user_id", config[1].userId)

\* A click tracked under a user id of 37 characters.
C27_Witness ==
    /\ config # <<>>
    /\ config[1].userId = UserId37
    /\ \E c \in EventCalls :
          /\ calls[c].name = SV("x_click", 7)
          /\ calls[c].st = "rejected"
          /\ calls[c].err = UserIdError
    /\ Cardinality({i \in 1..Len(gtagLog) : gtagLog[i].cmd = "get"}) = 2
    /\ EventsLogged = {}

\* An event submitted with no user id configured.
C27_WitnessEmpty ==
    /\ config # <<>>
    /\ config[1].userId = Empty
    /\ \E i \in EventsLogged : "user_id" \notin Keys(gtagLog[i].data)

\* An event submitted under a user id of 36 characters.
C27_WitnessWhole ==
    /\ config # <<>>
    /\ \E i \in EventsLogged :
          /\ "user_id" \in Keys(gtagLog[i].data)
          /\ Get(gtagLog[i].data, "user_id") = UserId36

AutoCalls == {c \in 1..Len(calls) : calls[c].by = "auto" /\ calls[c].kind = "event"}

AutoEvents == {i \in EventsLogged : gtagLog[i].by = "auto"}

\* C28: with a configured user id of at most 36 characters the events the
\* tracker emits on its own, the page view of initialize and the clicks its
\* listener tracks, never fail the size validation, whatever the lengths of
\* the configuration strings, the host name, the query values, the answers of
\* the tag library and the attributes of the clicked element: the payload of
\* each has at most 18 keys, keys of at most 40 characters and string values
\* of at most 100, and the call resolves once its queries are answered.
C28_AutoEventsPass ==
    (config # <<>> /\ config[1].userId.len <= 36) =>
        /\ \A c \in AutoCalls :
              /\ calls[c].st # "rejected"
              /\ LET payload == PayloadOf(c) IN
                     /\ ValidationError(payload) = ""
                     /\ Len(payload) <= 18
                     /\ \A j \in 1..Len(payload) :
                           payload[j].v.t = "string" => payload[j].v.len <= 100
              /\ (calls[c].cid.t # "pending" /\ calls[c].sid.t # "pending") =>
                     calls[c].st = "resolved" /\ Cardinality(EventsOf(c)) = 1
        /\ \A i \in AutoEvents :
              /\ WithinLimits(gtagLog[i].name, gtagLog[i].data)
              /\ Len(gtagLog[i].data) <= 18

\* A tracked click on a link with a long href and a long text, on a page with
\* every UTM variable, a long host name and a user id of 36 characters: a
\* payload of 18 keys.
C28_Witness ==
    \E i \in AutoEvents :
        /\ gtagLog[i].name = SV("x_click", 7)
        /\ Len(gtagLog[i].data) = 18
        /\ Get(gtagLog[i].data, "x_flex_sub_id") = [SV("/pricing?plan=...", 100) EXCEPT !.cut = TRUE]
        /\ Get(gtagLog[i].data, "x_flex_value").len = 100
        /\ Get(gtagLog[i].data, "x_hostname").cut
        /\ Get(gtagLog[i].data, "x_client_id").cut

AutoClickEvents == {i \in AutoEvents : gtagLog[i].name = SV("x_click", 7)}

\* C30 as stated: every x_click event of the tracker's click listener
\* describes an element that matches the tracked selector, the element the
\* listener fired for.
C30_DescribesMatchedElement ==
    \A i \in AutoClickEvents :
        Get(gtagLog[i].data, "x_flex_sub_value").txt \in {"a", "button", "input"}

\* What holds instead: the event describes the target of the click, an HTML
\* element with a tracked element on its path to the document.
C30_DescribesClickTarget ==
    \A i \in AutoClickEvents :
        \E target \in ClickTargets :
            /\ IsHTMLElement(target)
            /\ Listener([nargs |-> 3, selector |-> TrackedSelector], target) # <<>>
            /\ Get(gtagLog[i].data, "x_flex_sub_value") = ToLowerCase(ElementTagName(target))

\* The other half of C30 as stated: one click starts at most one x_click call.
C30_OneCallPerClick == [][Len(calls') <= Len(calls) + 1]_vars

GetsOf(c, name) ==
    {i \in 1..Len(gtagLog) : gtagLog[i].cmd = "get" /\ gtagLog[i].call = c /\ gtagLog[i].name = name}

Unanswered(c) == calls[c].cid.t = "pending" \/ calls[c].sid.t = "pending"

\* C29: a trackEvent call that passes the name check makes the client_id and
\* the session_id query, in that order, and submits its 'event' call only
\* after both are answered.  While the tag function has left one of the two
\* callbacks uncalled the promise is neither resolved nor rejected and the call
\* has submitted no event; so it stays for good under a stub that no library
\* drains.  No step settles a call in which an answer is still missing.
C29_WaitsForBothAnswers ==
    /\ [](\A c \in EventCalls :
             /\ Cardinality(GetsOf(c, SV("client_id", 9))) = 1
             /\ Cardinality(GetsOf(c, SV("session_id", 10))) = 1
             /\ \A i \in GetsOf(c, SV("client_id", 9)), j \in GetsOf(c, SV("session_id", 10)) : i < j
             /\ \A j \in GetsOf(c, SV("session_id", 10)), e \in EventsOf(c) : j < e
             /\ Unanswered(c) => calls[c].st = "waiting" /\ EventsOf(c) = {}
             /\ ~LibraryRuns(World) => Unanswered(c))
    /\ [][\A c \in EventCalls :
             (calls[c].st = "waiting" /\ calls'[c].st # "waiting") =>
                 /\ Unanswered(c)
                 /\ calls'[c].cid.t # "pending" /\ calls'[c].sid.t # "pending"]_vars

\* A call of the host page waits under the stub, one query answered after the
\* library came, the other not.
C29_Witness ==
    /\ gtag = "stub"
    /\ \E c \in EventCalls :
          /\ calls[c].by = "host"
          /\ calls[c].cid.t # "pending"
          /\ calls[c].sid.t = "pending"
          /\ calls[c].st = "waiting"

\* The GA4 script failed to load: the call of the host page waits for good.
C29_WitnessNeverDrained ==
    /\ gtag = "stub"
    /\ \E i \in Attached("ga4") : scripts[i].st = "error"
    /\ \E c \in EventCalls : calls[c].by = "host" /\ calls[c].st = "waiting"
    /\ \A c \in EventCalls : calls[c].st = "waiting"
    /\ EventsLogged = {}

====
